---------------------------- MODULE Spec2Model ----------------------------
(***************************************************************************)
(* Workflow store, feedback store, refiner and autonomous execution loop   *)
(* of the desktop-operation learning engine (src/claude/src/agent).        *)
(*                                                                         *)
(* Representation choices:                                                 *)
(*  - a string is a sequence of character codes (see CH_a .. DIGIT0);      *)
(*  - a float confidence is a fixed-point number of 1/Scale units, every   *)
(*    product and quotient truncated; success and failure rates are kept   *)
(*    as exact fractions and compared by cross-multiplication;             *)
(*  - a uuid is an identifier never handed out before (usedIds);           *)
(*  - a directory of JSON files is a function from identifier to record    *)
(*    (the workflow store) or a bag of records (the feedback store).       *)
(***************************************************************************)
EXTENDS Integers, Sequences, FiniteSets, TLC

(***************************************************************************)
(* Bounds of the model                                                     *)
(***************************************************************************)
MaxId == 2
MaxFeedback == 3
MaxRunSteps == 5
MaxFailCap == 2
MaxRefine == 2
MaxLifeFeedback == 10
MaxLineageId == 3
MaxLineageFeedback == 3
MaxFiles == 2
MaxCycles == 3
MaxLog == 3
MaxSegments == 2
MaxDedupId == 5
MaxCalls == 2
MaxDaemonCycles == 2
MaxVariantId == 5
MaxVariantFeedback == 4
MaxVariantRefine == 4
MaxMergeId == 3
MaxRecords == 3
MaxSessionRecords == 2
MaxRecoveries == 6
MaxHistory == 21
MaxOutcomeRuns == 4

(***************************************************************************)
(* Fixed-point scale of a confidence: 1000 units = 1.0                     *)
(***************************************************************************)
Scale == 1000

(***************************************************************************)
(* Characters.  Letters a, b, c, v, m, n, y have codes 1..7; their upper-case    *)
(* forms are the code plus UPPER_OFFSET.                                   *)
(***************************************************************************)
SPACE == 0
UNDERSCORE == 9
CH_a == 1
CH_b == 2
CH_c == 3
CH_v == 4
CH_m == 5
CH_n == 6
CH_y == 7
UPPER_OFFSET == 10
DIGIT0 == 30

None == 0

(***************************************************************************)
(* Thresholds of the refiner, rates in tenths (0.7 = 7/RateDen)            *)
(***************************************************************************)
RateDen == 10
PROMOTE_TO_TESTED_MIN_COUNT == 1
PROMOTE_TO_ACTIVE_MIN_COUNT == 5
PROMOTE_TO_ACTIVE_MIN_RATE == 7
DEMOTE_TO_DEPRECATED_MIN_COUNT == 3
DEMOTE_TO_DEPRECATED_MAX_RATE == 2
MIN_FAILURES_FOR_VARIANT == 3
STEP_FAILURE_THRESHOLD == 5
PRUNE_FAILURE_RATE == 8
PRUNE_MIN_FEEDBACKS == 3
MAX_VARIANTS == 3
CLICK_XY_MIN_COUNT == 5
BLEND_OLD == 7
BLEND_RATE == 3
BLEND_EPSILON == 10
VARIANT_CONFIDENCE == 8
MERGE_MAX_EDIT_DISTANCE == 3
GOAL_CHECK_INTERVAL == 5
GOAL_MIN_CONFIDENCE == 700
MIN_CONFIDENCE == 500
SEGMENT_GAP_SECONDS == 30
SESSION_GAP == 300
SESSION_MAX == 50
SEGMENT_MAX_ACTIONS == 100
POLL_INTERVAL == 30
POLL_SEC == 10
MAX_RETRIES == 5

VARIABLES
    store,                 \* workflow directory: workflow_id -> Workflow
    usedIds,               \* every workflow_id a uuid call has returned
    feedback,              \* feedback directory: feedback content -> files
    refines,               \* number of refine_all passes run so far
    pc,                    \* position of the execution loop
    ctx,                   \* ExecutionContext of the current run
    run_wf,                \* the Workflow object being replayed (or NoWorkflow)
    step_num,              \* loop variable i (replay) / step_num (exploration)
    step_results,          \* step_results list of the current run
    consecutive_failures,  \* consecutive_failures counter of the current run
    ui_log,                \* UI-probe calls made during the current run
    played,                \* step numbers handed to play_action_step
    result,                \* ExecutionResult returned by the last run
    recorded,              \* feedbacks _record_feedback wrote in the current run
    current_app,           \* frontmost application the observer reports
    prompts,               \* step number -> TRUE when the console prompt was declined
    goal_log,              \* what the oracle answered in the current exploration
    watch_dir,             \* capture files present: name -> [timestamp, ok]
    added,                 \* names of the capture files ever written
    processed,             \* FileWatcher._processed of the running pipeline
    processed_log,         \* lines of _processed.txt
    agent_log,             \* lines of _agent_processed.txt
    buffer,                \* SessionBuilder._buffer of the running pipeline
    pipeline_pc,           \* "stopped", "running" or "crashed"
    cycles,                \* scan cycles run so far
    fed,                   \* captures handed to the session builder / segmenter
    ai_calls,              \* calls of the oracle adapter with their results
    daemon,                \* the two daemon loops: flag, position, sleep
    json_file,             \* one workflow file: [written, data] JSON objects
    merge_log,             \* the merges of the last pass: [order, merges]
    segmenter,             \* a SessionBuilder, its input and what it returned
    retry,                 \* one transport call: provider, attempts, outcome
    recovery,              \* RecoveryLearner: _patterns, the last call, its value
    regression             \* feedbacks of one workflow and what detect_regression said

storeVars == <<store, usedIds, feedback, refines>>
loopVars == <<pc, ctx, run_wf, step_num, step_results, consecutive_failures,
              ui_log, played, result, recorded, current_app, prompts,
              goal_log>>
watchVars == <<watch_dir, added, processed, processed_log, agent_log, buffer,
               pipeline_pc, cycles, fed, ai_calls>>
learnVars == <<recovery, regression>>
procVars == <<daemon, json_file, merge_log, segmenter, retry, learnVars>>
vars == <<storeVars, loopVars, watchVars, procVars>>

(***************************************************************************)
(* Strings                                                                 *)
(***************************************************************************)
IsUpper(c) == c > UPPER_OFFSET /\ c <= UPPER_OFFSET + CH_y

\* str.lower()
Lower(s) == [i \in 1..Len(s) |-> IF IsUpper(s[i]) THEN s[i] - UPPER_OFFSET ELSE s[i]]

\* k in s (substring test)
IsSubstring(k, s) ==
    \E i \in 0..(Len(s) - Len(k)) : SubSeq(s, i + 1, i + Len(k)) = k

\* str.split(): the maximal runs without whitespace
Split(q) ==
    { SubSeq(q, i, j) : <<i, j>> \in
        { p \in (1..Len(q)) \X (1..Len(q)) :
            /\ p[1] <= p[2]
            /\ \A k \in p[1]..p[2] : q[k] # SPACE
            /\ (p[1] = 1 \/ q[p[1] - 1] = SPACE)
            /\ (p[2] = Len(q) \/ q[p[2] + 1] = SPACE) } }

RECURSIVE SetToSeq(_)
SetToSeq(S) ==
    IF S = {} THEN <<>>
    ELSE LET x == CHOOSE y \in S : TRUE IN <<x>> \o SetToSeq(S \ {x})

\* " ".join(parts)
RECURSIVE Join(_)
Join(parts) ==
    IF Len(parts) = 0 THEN <<>>
    ELSE IF Len(parts) = 1 THEN parts[1]
    ELSE parts[1] \o <<SPACE>> \o Join(Tail(parts))

Min2(a, b) == IF a <= b THEN a ELSE b

\* WorkflowRefiner._edit_distance
edit_distance(s1, s2) ==
    LET m == Len(s1)
        n == Len(s2)
        dp[i \in 0..m, j \in 0..n] ==
            IF i = 0 THEN j
            ELSE IF j = 0 THEN i
            ELSE IF s1[i] = s2[j] THEN dp[i - 1, j - 1]
            ELSE 1 + Min2(dp[i - 1, j - 1], Min2(dp[i - 1, j], dp[i, j - 1]))
    IN dp[m, n]

\* WorkflowRefiner._tag_overlap(tags1, tags2) >= 0.5, as an exact comparison
tag_overlap_ok(tags1, tags2) ==
    LET union == tags1 \cup tags2 IN
    IF union = {} THEN FALSE
    ELSE 2 * Cardinality(tags1 \cap tags2) >= Cardinality(union)

(***************************************************************************)
(* Data model (agent/models.py)                                            *)
(***************************************************************************)
WorkflowStatus == {"draft", "tested", "active", "deprecated"}
KEY_ACTION_TYPES == {"text_input", "key_input", "key_shortcut"}
\* error_code values of error_details ("unknown" when absent)
ErrorCodes == {"HINT_NOT_FOUND", "TIMEOUT", "INPUT_FAILED", "unknown"}

\* ActionStep: has_keys stands for the keystroke data play_key_action needs
\* (key_events for text_input, keycode otherwise); description is the last
\* rewrite a variant applied to it; the text_input steps are the
\* parameterized ones, and text is "recorded" until a parameter is bound.
ActionStep(type, app, bundle, keys) ==
    [action_type |-> type, app_name |-> app, app_bundle_id |-> bundle,
     has_keys |-> keys, target_role |-> "AXButton", description |-> "orig",
     text |-> "recorded", is_parameterized |-> (type = "text_input")]

\* Workflow as built by WorkflowExtractor._analyze_segment
Workflow(name, app, tags, steps, confidence) ==
    [name |-> name, description |-> <<>>, app_name |-> app, tags |-> tags,
     steps |-> steps, confidence |-> confidence, status |-> "draft",
     execution_count |-> 0, parent_id |-> None]

ExecutionFeedback(wid, success, executed, succeeded, failed, errors, mode) ==
    [workflow_id |-> wid, success |-> success, steps_executed |-> executed,
     steps_succeeded |-> succeeded, failed_step_indices |-> failed,
     error_details |-> errors, execution_mode |-> mode]

(***************************************************************************)
(* WorkflowStore (agent/workflow_store.py), on a directory st              *)
(***************************************************************************)
save(st, id, wf) == [x \in DOMAIN st \cup {id} |-> IF x = id THEN wf ELSE st[x]]

delete(st, id) == [x \in DOMAIN st \ {id} |-> st[x]]

\* get: <<wf>> when the file exists, <<>> for None
get(st, id) == IF id \in DOMAIN st THEN <<st[id]>> ELSE <<>>

\* sorted(glob) then a stable sort by confidence, descending
RECURSIVE SortByConfidence(_, _)
SortByConfidence(st, ids) ==
    IF ids = {} THEN <<>>
    ELSE LET best == CHOOSE x \in ids : \A y \in ids :
                        \/ st[x].confidence > st[y].confidence
                        \/ (st[x].confidence = st[y].confidence /\ x <= y)
         IN <<best>> \o SortByConfidence(st, ids \ {best})

list_all(st) == SortByConfidence(st, DOMAIN st)

searchable(wf) ==
    Join(<<Lower(wf.name), Lower(wf.description), Lower(wf.app_name),
           Join(SetToSeq({Lower(t) : t \in wf.tags}))>>)

\* score = keyword_match*3.0 + success_rate*2.0 + log(execution_count+1)*0.3,
\* with no feedback store passed (as AutonomousLoop.run calls it): the order
\* of the scores is the order of execution_count.
SearchMatchesMutantKeepsDeprecated(st, query) ==
    { id \in DOMAIN st :
        \A kw \in Split(Lower(query)) : IsSubstring(kw, searchable(st[id])) }

SearchMatches(st, query) ==
    { id \in DOMAIN st :
        /\ st[id].status # "deprecated"
        /\ \A kw \in Split(Lower(query)) : IsSubstring(kw, searchable(st[id])) }

RECURSIVE SortByScore(_, _, _)
SortByScore(st, order, ids) ==
    IF ids = {} THEN <<>>
    ELSE LET pos(x) == CHOOSE k \in 1..Len(order) : order[k] = x
             best == CHOOSE x \in ids : \A y \in ids :
                        \/ st[x].execution_count > st[y].execution_count
                        \/ (st[x].execution_count = st[y].execution_count
                            /\ pos(x) <= pos(y))
         IN <<best>> \o SortByScore(st, order, ids \ {best})

search(st, query) == SortByScore(st, list_all(st), SearchMatches(st, query))

find_duplicate(st, name) ==
    LET order == list_all(st)
        hits == { k \in 1..Len(order) : Lower(st[order[k]].name) = Lower(name) }
    IN IF hits = {} THEN None
       ELSE order[CHOOSE k \in hits : \A j \in hits : k <= j]

(***************************************************************************)
(* FeedbackStore (agent/feedback_store.py), on a directory fb              *)
(***************************************************************************)
\* the directory holds one file per feedback under a random name: fb maps each
\* feedback content to the number of files holding it
recordMutantOverwrites(fb, f) == (f :> 1)

record(fb, f) ==
    [g \in DOMAIN fb \cup {f} |-> IF g \in DOMAIN fb
                                   THEN (IF g = f THEN fb[g] + 1 ELSE fb[g])
                                   ELSE 1]

RECURSIVE SumOver(_, _)
SumOver(f, S) ==
    IF S = {} THEN 0
    ELSE LET x == CHOOSE y \in S : TRUE IN f[x] + SumOver(f, S \ {x})

\* len() of a list of feedbacks
Count(fbs) == SumOver(fbs, DOMAIN fbs)

Restrict(fbs, P(_)) == [f \in { g \in DOMAIN fbs : P(g) } |-> fbs[f]]

get_by_workflow(fb, id) == Restrict(fb, LAMBDA f : f.workflow_id = id)

SuccessCount(fbs) == Count(Restrict(fbs, LAMBDA f : f.success))

\* get_success_rate as the fraction <<successes, feedbacks>> (0/1 when empty)
get_success_rate(fb, id) ==
    LET fbs == get_by_workflow(fb, id) IN
    IF Count(fbs) = 0 THEN <<0, 1>> ELSE <<SuccessCount(fbs), Count(fbs)>>

CountIn(seq, x) == Cardinality({ k \in 1..Len(seq) : seq[k] = x })

\* get_step_failure_rates: step_index -> number of times feedbacks name it
\* (the rate is that count over the number of feedbacks)
get_step_failure_counts(fb, id) ==
    LET fbs == get_by_workflow(fb, id)
        idxs == UNION { { f.failed_step_indices[j] :
                            j \in 1..Len(f.failed_step_indices) } : f \in DOMAIN fbs }
    IN [ idx \in idxs |->
            SumOver([f \in DOMAIN fbs |-> fbs[f] * CountIn(f.failed_step_indices, idx)],
                    DOMAIN fbs) ]

(***************************************************************************)
(* WorkflowRefiner (agent/workflow_refiner.py).  A pass works on ps:       *)
(*   mem   the Workflow objects list_all returned, mutated in place;       *)
(*   disk  the workflow directory;                                         *)
(*   fresh the identifiers the pass's uuid calls will return, in order;    *)
(*   ok    FALSE once a uuid was needed and fresh had run out.             *)
(***************************************************************************)
Abs(x) == IF x < 0 THEN 0 - x ELSE x

\* wf.confidence * 0.7 + success_rate * 0.3
BlendMutantNoWeights(c, succ, n) == c + (BLEND_RATE * succ * Scale) \div (RateDen * n)

Blend(c, succ, n) ==
    (BLEND_OLD * c * n + BLEND_RATE * succ * Scale) \div (RateDen * n)

update_confidence(ps, fb, id) ==
    LET wf == ps.mem[id]
        rate == get_success_rate(fb, id)
        new_confidence == Blend(wf.confidence, rate[1], rate[2])
    IN IF Count(get_by_workflow(fb, id)) = 0 THEN ps
       ELSE IF Abs(new_confidence - wf.confidence) > BLEND_EPSILON
       THEN LET wf2 == [wf EXCEPT !.confidence = new_confidence]
            IN [ps EXCEPT !.mem[id] = wf2, !.disk = save(ps.disk, id, wf2)]
       ELSE ps

NewStatusMutantTestsAny(old_status, count, succ) ==
    IF /\ count >= DEMOTE_TO_DEPRECATED_MIN_COUNT
       /\ succ * RateDen < DEMOTE_TO_DEPRECATED_MAX_RATE * count
    THEN "deprecated"
    ELSE IF /\ count >= PROMOTE_TO_ACTIVE_MIN_COUNT
            /\ succ * RateDen >= PROMOTE_TO_ACTIVE_MIN_RATE * count
    THEN "active"
    ELSE IF count >= PROMOTE_TO_TESTED_MIN_COUNT /\ succ > 0
    THEN "tested"
    ELSE old_status

\* the status _promote_or_demote assigns, rate = succ / count
NewStatus(old_status, count, succ) ==
    IF /\ count >= DEMOTE_TO_DEPRECATED_MIN_COUNT
       /\ succ * RateDen < DEMOTE_TO_DEPRECATED_MAX_RATE * count
    THEN "deprecated"
    ELSE IF /\ count >= PROMOTE_TO_ACTIVE_MIN_COUNT
            /\ succ * RateDen >= PROMOTE_TO_ACTIVE_MIN_RATE * count
    THEN "active"
    ELSE IF count >= PROMOTE_TO_TESTED_MIN_COUNT /\ succ > 0
    THEN (IF old_status = "draft" THEN "tested" ELSE old_status)
    ELSE old_status

promote_or_demote(ps, fb, id) ==
    LET wf == ps.mem[id]
        count == Count(get_by_workflow(fb, id))
        rate == get_success_rate(fb, id)
        wf2 == [wf EXCEPT !.execution_count = count,
                          !.status = NewStatus(wf.status, count, rate[1])]
    IN IF count = 0 THEN ps
       ELSE IF wf2.status # wf.status
       THEN [ps EXCEPT !.mem[id] = wf2, !.disk = save(ps.disk, id, wf2)]
       ELSE [ps EXCEPT !.mem[id] = wf2]

\* the subsequence of steps whose 0-based index is not in drop
RECURSIVE RemoveIndices(_, _, _)
RemoveIndices(steps, drop, k) ==
    IF k > Len(steps) THEN <<>>
    ELSE (IF (k - 1) \in drop THEN <<>> ELSE <<steps[k]>>)
         \o RemoveIndices(steps, drop, k + 1)

prune_failed_steps(ps, fb, id) ==
    LET wf == ps.mem[id]
        total_feedbacks == Count(get_by_workflow(fb, id))
        counts == get_step_failure_counts(fb, id)
        indices_to_remove ==
            { idx \in DOMAIN counts :
                /\ counts[idx] * RateDen >= PRUNE_FAILURE_RATE * total_feedbacks
                /\ total_feedbacks >= PRUNE_MIN_FEEDBACKS }
        wf2 == [wf EXCEPT !.steps = RemoveIndices(wf.steps, indices_to_remove, 1)]
    IN IF total_feedbacks = 0 \/ indices_to_remove = {} THEN ps
       ELSE [ps EXCEPT !.mem[id] = wf2, !.disk = save(ps.disk, id, wf2)]

\* _detect_improvements: the set of {step_index, type} modifications
detect_improvements(failed_feedbacks) ==
    LET fs == DOMAIN failed_feedbacks
        hits(f, idx, code) ==
            Cardinality({ j \in 1..Len(f.error_details) :
                            /\ f.error_details[j].step_index = idx
                            /\ f.error_details[j].error_code = code })
        idxs == { i \in UNION { { f.error_details[j].step_index :
                                    j \in 1..Len(f.error_details) } : f \in fs } : i >= 0 }
        count(idx, code) ==
            SumOver([f \in fs |-> failed_feedbacks[f] * hits(f, idx, code)], fs)
        total(idx) == SumOver([c \in ErrorCodes |-> count(idx, c)], ErrorCodes)
        kind(code, n) ==
            IF code = "HINT_NOT_FOUND" /\ n >= CLICK_XY_MIN_COUNT THEN "change_to_click_xy"
            ELSE IF code = "HINT_NOT_FOUND" THEN "insert_wait"
            ELSE IF code = "TIMEOUT" THEN "increase_timeout"
            ELSE IF code = "INPUT_FAILED" THEN "insert_focus_check"
            ELSE "none"
    IN { m \in { [step_index |-> p[1], type |-> kind(p[2], count(p[1], p[2]))] :
                    p \in { q \in idxs \X ErrorCodes :
                        /\ total(q[1]) >= MIN_FAILURES_FOR_VARIANT
                        /\ count(q[1], q[2]) > 0
                        /\ count(q[1], q[2]) * RateDen
                              >= STEP_FAILURE_THRESHOLD * total(q[1]) } } :
         m.type # "none" }

\* original.confidence * 0.8
VariantConfidence(c) == (c * VARIANT_CONFIDENCE) \div RateDen

ApplyModifications(steps, modifications) ==
    [k \in 1..Len(steps) |->
        IF [step_index |-> k - 1, type |-> "change_to_click_xy"] \in modifications
        THEN [steps[k] EXCEPT !.target_role = "None", !.description = "click_xy"]
        ELSE IF [step_index |-> k - 1, type |-> "insert_wait"] \in modifications
        THEN [steps[k] EXCEPT !.description = "wait"]
        ELSE steps[k]]

create_variant(ps, original, original_id, modifications, version) ==
    LET variant == [original EXCEPT
                      !.name = original.name \o <<UNDERSCORE, CH_v, DIGIT0 + version>>,
                      !.status = "draft",
                      !.execution_count = 0,
                      !.parent_id = original_id,
                      !.confidence = VariantConfidence(original.confidence),
                      !.steps = ApplyModifications(original.steps, modifications)]
    IN IF Len(ps.fresh) = 0 THEN [ps EXCEPT !.ok = FALSE]
       ELSE [ps EXCEPT !.disk = save(ps.disk, Head(ps.fresh), variant),
                       !.fresh = Tail(ps.fresh)]

try_create_variantMutantNoCap(ps, fb, id) ==
    LET wf == ps.mem[id]
        failed == Restrict(get_by_workflow(fb, id), LAMBDA f : ~f.success)
        existing_variants == { w \in DOMAIN ps.disk : ps.disk[w].parent_id = id }
        modifications == detect_improvements(failed)
    IN IF Count(failed) < MIN_FAILURES_FOR_VARIANT THEN ps
       ELSE IF modifications = {} THEN ps
       ELSE create_variant(ps, wf, id, modifications, Cardinality(existing_variants) + 2)

try_create_variant(ps, fb, id) ==
    LET wf == ps.mem[id]
        failed == Restrict(get_by_workflow(fb, id), LAMBDA f : ~f.success)
        existing_variants == { w \in DOMAIN ps.disk : ps.disk[w].parent_id = id }
        modifications == detect_improvements(failed)
    IN IF Count(failed) < MIN_FAILURES_FOR_VARIANT THEN ps
       ELSE IF Cardinality(existing_variants) >= MAX_VARIANTS THEN ps
       ELSE IF modifications = {} THEN ps
       ELSE create_variant(ps, wf, id, modifications, Cardinality(existing_variants) + 2)

\* _find_similar(wf, candidates), candidates in list order
find_similar(mem, wf, candidates) ==
    SelectSeq(candidates, LAMBDA c :
        /\ mem[c].app_name = mem[wf].app_name
        /\ edit_distance(mem[wf].name, mem[c].name) <= MERGE_MAX_EDIT_DISTANCE
        /\ tag_overlap_ok(mem[wf].tags, mem[c].tags))

\* (base.confidence + other.confidence) / 2.0
MergedConfidenceMutantKeepsBase(a, b) == a

MergedConfidence(a, b) == (a + b) \div 2

\* the body of "for sim in similar", from index k on; ms.merged is merged_ids
\* and ms.absorbed the merges done so far: the identifiers of base and other,
\* the workflow wf being visited, the two objects before the merge and the
\* directory after it
RECURSIVE merge_into(_, _, _, _)
merge_into(ms, wf, similar, k) ==
    IF k > Len(similar) THEN ms
    ELSE LET sim == similar[k]
             sim_is_base == Len(ms.mem[sim].steps) > Len(ms.mem[wf].steps)
             base == IF sim_is_base THEN sim ELSE wf
             other == IF sim_is_base THEN wf ELSE sim
             b == ms.mem[base]
             o == ms.mem[other]
             b2 == [b EXCEPT
                      !.confidence = MergedConfidence(b.confidence, o.confidence),
                      !.tags = b.tags \cup o.tags,
                      !.execution_count = b.execution_count + o.execution_count]
             ms2 == [ms EXCEPT !.mem[base] = b2,
                               !.disk = delete(save(ms.disk, base, b2), other),
                               !.merged = ms.merged \cup {other},
                               !.absorbed = Append(ms.absorbed,
                                    [base |-> base, other |-> other, wf |-> wf,
                                     b |-> b, o |-> o,
                                     disk |-> delete(save(ms.disk, base, b2), other)]),
                               !.count = ms.count + 1]
         IN IF sim_is_base THEN ms2 ELSE merge_into(ms2, wf, similar, k + 1)

\* the body of "for wf in workflows", from index k on
RECURSIVE merge_from(_, _, _)
merge_from(ms, workflows, k) ==
    IF k > Len(workflows) THEN ms
    ELSE LET wf == workflows[k]
             candidates == SelectSeq(workflows, LAMBDA c :
                              /\ c # wf
                              /\ c \notin ms.merged
                              /\ ms.mem[c].parent_id = None)
         IN IF wf \in ms.merged \/ ms.mem[wf].parent_id # None
            THEN merge_from(ms, workflows, k + 1)
            ELSE merge_from(merge_into(ms, wf, find_similar(ms.mem, wf, candidates), 1),
                            workflows, k + 1)

merge_similar(ps, workflows) ==
    LET ms == merge_from([mem |-> ps.mem, disk |-> ps.disk, merged |-> {},
                          absorbed |-> <<>>, count |-> 0],
                         workflows, 1)
    IN [ps EXCEPT !.mem = ms.mem, !.disk = ms.disk]

\* the four per-workflow calls of the loop body of refine_all
refine_one(ps, fb, id) ==
    try_create_variant(
        prune_failed_steps(
            promote_or_demote(
                update_confidence(ps, fb, id), fb, id), fb, id), fb, id)

SkipsWorkflowMutantNever(wf) == FALSE

\* whether refine_all leaves the workflow alone
SkipsWorkflow(wf) == wf.status = "deprecated"

RECURSIVE refine_from(_, _, _, _)
refine_from(ps, fb, workflows, k) ==
    IF k > Len(workflows) THEN ps
    ELSE IF SkipsWorkflow(ps.mem[workflows[k]])
    THEN refine_from(ps, fb, workflows, k + 1)
    ELSE refine_from(refine_one(ps, fb, workflows[k]), fb, workflows, k + 1)

refine_all(st, fb, fresh) ==
    LET workflows == list_all(st)
        ps == [mem |-> st, disk |-> st, fresh |-> fresh, ok |-> TRUE]
    IN merge_similar(refine_from(ps, fb, workflows, 1), workflows)

(***************************************************************************)
(* WorkflowExtractor (agent/workflow_extractor.py)                         *)
(***************************************************************************)
\* _analyze_segment: the Workflow built from the oracle's answer (<<wf>>),
\* or <<>> for None
analyze_segment(segment, res) ==
    IF ~res.is_workflow THEN <<>>
    ELSE IF res.confidence < MIN_CONFIDENCE THEN <<>>
    ELSE << Workflow(res.name, segment.app_name, res.tags, segment.steps, res.confidence) >>

ReplacesMutantOnTie(wf, existing) == wf.confidence >= existing.confidence

\* whether the new workflow replaces the stored one of the same name
Replaces(wf, existing) == wf.confidence > existing.confidence

save_extractedMutantNoCheck(es, wf) ==
    IF Len(es.fresh) = 0 THEN [es EXCEPT !.ok = FALSE]
    ELSE [es EXCEPT !.disk = save(es.disk, Head(es.fresh), wf),
                    !.fresh = Tail(es.fresh)]

\* the duplicate check and save of one analysed segment (lines 80-94)
save_extracted(es, wf) ==
    LET existing == find_duplicate(es.disk, wf.name)
        put(d) == [es EXCEPT !.disk = save(d, Head(es.fresh), wf),
                             !.fresh = Tail(es.fresh)]
    IN IF Len(es.fresh) = 0 THEN [es EXCEPT !.ok = FALSE]
       ELSE IF existing # None
       THEN (IF Replaces(wf, es.disk[existing])
             THEN put(delete(es.disk, existing))
             ELSE es)
       ELSE put(es.disk)

\* the loop of extract_all / extract_incremental over the segments
RECURSIVE extract_from(_, _, _)
extract_from(es, inputs, k) ==
    IF k > Len(inputs) THEN es
    ELSE LET wf == analyze_segment(inputs[k].segment, inputs[k].res)
         IN IF wf = <<>> THEN extract_from(es, inputs, k + 1)
            ELSE extract_from(save_extracted(es, wf[1]), inputs, k + 1)

extract_all(st, inputs, fresh) ==
    extract_from([disk |-> st, fresh |-> fresh, ok |-> TRUE], inputs, 1)

(***************************************************************************)
(* Inputs of the model                                                     *)
(***************************************************************************)
IdSet == 1..MaxId

APP_FINDER == <<CH_c>>
APP_MAIL == <<CH_m + UPPER_OFFSET, CH_a>>
NAME_AB == <<CH_a, CH_b>>
NAME_AC == <<CH_a, CH_c>>
NAME_FAR == <<CH_c, CH_c, CH_c, CH_c, CH_c, CH_c>>
TAG_A == <<CH_a>>
TAG_B == <<CH_b>>

\* AgentConfig.dangerous_apps
dangerous_apps == { APP_MAIL }

CLICK_STEP(app) == ActionStep("click", app, TRUE, FALSE)
TEXT_STEP(app) == ActionStep("text_input", app, FALSE, TRUE)
BAD_KEY_STEP(app) == ActionStep("key_shortcut", app, FALSE, FALSE)

SEG_SHORT == [app_name |-> APP_FINDER, steps |-> <<CLICK_STEP(APP_FINDER)>>]
SEG_LONG == [app_name |-> APP_FINDER,
             steps |-> <<CLICK_STEP(APP_FINDER), TEXT_STEP(APP_FINDER)>>]

OracleResult(is_workflow, name, tags, confidence) ==
    [is_workflow |-> is_workflow, name |-> name, tags |-> tags,
     confidence |-> confidence]

\* segments with the answer of analyze_workflow_segment, confidence in [0, 1]
ExtractInputs ==
    { [segment |-> SEG_SHORT, res |-> OracleResult(TRUE, NAME_AB, {TAG_A}, 800)],
      [segment |-> SEG_LONG, res |-> OracleResult(TRUE, NAME_AC, {TAG_A, TAG_B}, Scale)],
      [segment |-> SEG_SHORT, res |-> OracleResult(TRUE, NAME_FAR, {}, 600)],
      [segment |-> SEG_SHORT, res |-> OracleResult(TRUE, NAME_FAR, {}, 400)],
      [segment |-> SEG_SHORT, res |-> OracleResult(FALSE, NAME_AB, {}, 0)] }

SeqsUpTo(S, n) == UNION { [1..k -> S] : k \in 1..n }

\* the identifiers later uuid calls return: the unused ones, taken in
\* ascending order
RECURSIVE FreshIds(_)
FreshIds(S) ==
    IF S = {} THEN <<>>
    ELSE LET x == CHOOSE y \in S : \A z \in S : y <= z
         IN <<x>> \o FreshIds(S \ {x})

HINT2 == << [step_index |-> 0, error_code |-> "HINT_NOT_FOUND"],
            [step_index |-> 0, error_code |-> "HINT_NOT_FOUND"] >>

\* feedbacks callers of FeedbackStore.record write for workflow wid
FeedbackInputs(wid) ==
    { ExecutionFeedback(wid, TRUE, 2, 2, <<>>, <<>>, "workflow"),
      ExecutionFeedback(wid, FALSE, 1, 0, <<0>>, HINT2, "workflow") }

(***************************************************************************)
(* Specification of the stores: extraction, feedback recording, refining   *)
(***************************************************************************)
NoWorkflow == [id |-> None, steps |-> <<>>]
NoContext == [goal |-> <<>>, workflow_id |-> None, dry_run |-> FALSE,
              parameters |-> FALSE,
              confirm_dangerous |-> FALSE, max_steps |-> 0,
              max_consecutive_failures |-> 0]
NoApp == [name |-> <<>>, bundle_id |-> FALSE]
NoResult == [success |-> FALSE, steps_executed |-> 0, steps_succeeded |-> 0,
             steps_failed |-> 0, goal_achieved |-> FALSE, error |-> FALSE]

\* no transport call made
NoCall == [provider |-> "none", pc |-> "idle", attempts |-> <<>>, exc |-> "none"]

\* SessionBuilder.__init__
SessionBuilder(gap_seconds, max_records) ==
    [gap_seconds |-> gap_seconds, max_records |-> max_records,
     buffer |-> <<>>, last_app |-> None]

\* no SessionBuilder made, nothing segmented
NoSegmenter ==
    [sb |-> SessionBuilder(0, 0), input |-> <<>>, returned |-> <<>>,
     ret |-> <<>>, flushes |-> 0, captures |-> <<>>, segments |-> <<>>]

\* the two daemon loops of the program
Daemons == {"ContinuousLearner", "LearningPipeline"}

\* a daemon object after __init__: _running False, run() not called yet;
\* left is the sleep still to do, late the seconds slept since stop()
\* without reading the flag, and stop_called whether stop() was called
DaemonIdle == [running |-> FALSE, pc |-> "idle", left |-> 0, late |-> 0,
               cycles |-> 0, stop_called |-> FALSE]

\* RecoveryLearner over a missing recovery_patterns.json
NoRecovery == [patterns |-> <<>>, call |-> <<>>, returned |-> <<>>]

\* no feedback of the workflow yet, detect_regression not called
NoRegression == [feedbacks |-> {}, detected |-> <<>>]

\* no capture file written, no pipeline process started
WatchIdle ==
    /\ watch_dir = << >>
    /\ added = {}
    /\ processed = {}
    /\ processed_log = <<>>
    /\ agent_log = <<>>
    /\ buffer = <<>>
    /\ pipeline_pc = "stopped"
    /\ cycles = 0
    /\ fed = [pipeline |-> << >>, agent |-> << >>, last |-> <<>>,
              handed |-> << >>]
    /\ ai_calls = <<>>
    /\ daemon = [d \in Daemons |-> DaemonIdle]
    /\ json_file = [written |-> << >>, data |-> << >>]
    /\ merge_log = [order |-> <<>>, merges |-> <<>>]
    /\ segmenter = NoSegmenter
    /\ retry = NoCall
    /\ recovery = NoRecovery
    /\ regression = NoRegression

\* no goal check made and no action selected yet
NoGoalLog == [checks |-> <<>>, action |-> "None"]

LoopIdle ==
    /\ pc = "idle"
    /\ ctx = NoContext
    /\ run_wf = NoWorkflow
    /\ step_num = 0
    /\ step_results = <<>>
    /\ consecutive_failures = 0
    /\ ui_log = {}
    /\ played = {}
    /\ result = NoResult
    /\ recorded = <<>>
    /\ current_app = NoApp
    /\ prompts = <<>>
    /\ goal_log = NoGoalLog

Init ==
    /\ store = << >>
    /\ usedIds = {}
    /\ feedback = << >>
    /\ refines = 0
    /\ LoopIdle
    /\ WatchIdle

\* WorkflowExtractor.extract_all / extract_incremental
ExtractAll ==
    \E inputs \in SeqsUpTo(ExtractInputs, 2) :
        LET es == extract_all(store, inputs, FreshIds(IdSet \ usedIds)) IN
        /\ es.ok
        /\ store' = es.disk
        /\ usedIds' = usedIds \cup DOMAIN es.disk
        /\ UNCHANGED <<procVars, feedback, refines, loopVars, watchVars>>

\* FeedbackStore.record
Record(f) ==
    /\ feedback' = record(feedback, f)
    /\ UNCHANGED <<procVars, store, usedIds, refines, loopVars, watchVars>>

RecordFeedback ==
    \E wid \in DOMAIN store : \E f \in FeedbackInputs(wid) :
        /\ Count(feedback) < MaxFeedback
        /\ Record(f)

\* WorkflowRefiner.refine_all
RefinePass ==
    LET ps == refine_all(store, feedback, FreshIds(IdSet \ usedIds)) IN
    /\ ps.ok
    /\ store' = ps.disk
    /\ usedIds' = usedIds \cup DOMAIN ps.disk
    /\ UNCHANGED <<procVars, feedback, loopVars, watchVars>>

RefineAll ==
    /\ refines < MaxRefine
    /\ refines' = refines + 1
    /\ RefinePass

Next == ExtractAll \/ RecordFeedback \/ RefineAll

Spec == Init /\ [][Next]_vars

(***************************************************************************)
(* Specification of the status lifecycle: a stored workflow, the feedbacks *)
(* the replay loop writes for it, and refine passes                        *)
(***************************************************************************)
LifecycleStore ==
    (1 :> Workflow(NAME_AB, APP_FINDER, {TAG_A}, SEG_LONG.steps, 800))

\* a replay in which every step succeeded, and one whose first step failed
ReplayFeedbacks(wid, steps) ==
    { ExecutionFeedback(wid, TRUE, Len(steps), Len(steps), <<>>, <<>>, "workflow"),
      ExecutionFeedback(wid, FALSE, 1, 0, <<0>>, <<>>, "workflow") }

LifecycleInit ==
    /\ store = LifecycleStore
    /\ usedIds = DOMAIN LifecycleStore
    /\ feedback = << >>
    /\ refines = 0
    /\ LoopIdle
    /\ WatchIdle

LifecycleRecord ==
    \E wid \in DOMAIN store : \E f \in ReplayFeedbacks(wid, store[wid].steps) :
        /\ Count(feedback) < MaxLifeFeedback
        /\ Record(f)

LifecycleRefine == RefinePass /\ UNCHANGED refines

LifecycleNext == LifecycleRecord \/ LifecycleRefine

LifecycleSpec == LifecycleInit /\ [][LifecycleNext]_vars

(***************************************************************************)
(* Specification of workflow lineage: learn cycles of one segment each,    *)
(* feedbacks, and refine passes that create variants and merge workflows   *)
(***************************************************************************)
LineageIds == 1..MaxLineageId

LineageInit ==
    /\ store = << >>
    /\ usedIds = {}
    /\ feedback = << >>
    /\ refines = 0
    /\ LoopIdle
    /\ WatchIdle

\* WorkflowExtractor.extract_all over a directory holding one more segment
LineageExtract ==
    \E input \in ExtractInputs :
        LET es == extract_all(store, <<input>>, FreshIds(LineageIds \ usedIds)) IN
        /\ es.ok
        /\ store' = es.disk
        /\ usedIds' = usedIds \cup DOMAIN es.disk
        /\ UNCHANGED <<procVars, feedback, refines, loopVars, watchVars>>

LineageRecord ==
    \E wid \in DOMAIN store : \E f \in FeedbackInputs(wid) :
        /\ Count(feedback) < MaxLineageFeedback
        /\ Record(f)

\* WorkflowRefiner.refine_all
LineageRefine ==
    LET ps == refine_all(store, feedback, FreshIds(LineageIds \ usedIds)) IN
    /\ refines < MaxRefine
    /\ refines' = refines + 1
    /\ ps.ok
    /\ store' = ps.disk
    /\ usedIds' = usedIds \cup DOMAIN ps.disk
    /\ UNCHANGED <<procVars, feedback, loopVars, watchVars>>

LineageNext == LineageExtract \/ LineageRecord \/ LineageRefine

LineageSpec == LineageInit /\ [][LineageNext]_vars

(***************************************************************************)
(* Execution: ActionPlayer, ExecutionVerifier, ActionSelector              *)
(***************************************************************************)
DEFAULT_MAX_STEPS == 50
DEFAULT_MAX_CONSECUTIVE_FAILURES == 5

\* AgentConfig.is_dangerous_app
is_dangerous_app(app_name) ==
    \E d \in dangerous_apps : IsSubstring(Lower(d), Lower(app_name))

\* play_key_action: the success flag and the UI-probe calls made
play_key_action(step, dry_run) ==
    IF dry_run THEN [success |-> TRUE, calls |-> {}]
    ELSE IF ~step.has_keys THEN [success |-> FALSE, calls |-> {}]
    ELSE [success |-> TRUE, calls |-> {"type_key"}]

\* ActionPlayer.play_action_step: the success flag and the UI-probe calls made
play_action_step(step, dry_run) ==
    LET activation == IF step.app_bundle_id THEN {"activate_app"} ELSE {}
    IN IF step.action_type \in KEY_ACTION_TYPES
       THEN LET r == play_key_action(step, dry_run)
            IN [success |-> r.success, calls |-> activation \cup r.calls]
       ELSE [success |-> TRUE,
             calls |-> activation \cup {"find_element"}
                          \cup (IF dry_run THEN {} ELSE {"click_at"})]

\* what the verification oracle can do: be unreachable, or judge the change
VerifyOracle == {"unavailable", "changed", "unchanged"}

\* ExecutionVerifier.verify_step
verify_step(oracle, dry_run) ==
    IF dry_run \/ oracle = "unavailable"
    THEN [success |-> FALSE, verified |-> FALSE]
    ELSE [success |-> (oracle = "changed"), verified |-> TRUE]

\* ActionSelector.select_from_workflow: <<step>>, or <<>> for None;
\* parameters tells whether a replacement is given for the step's parameter
select_from_workflow(workflow, step_index, parameters) ==
    IF step_index >= Len(workflow.steps) THEN <<>>
    ELSE LET step == workflow.steps[step_index + 1]
         IN IF parameters /\ step.is_parameterized
            THEN <<[step EXCEPT !.text = "bound"]>>
            ELSE <<step>>

\* None as returned by select_autonomous
NoAction == [action_type |-> "None", has_keys |-> FALSE,
             requires_confirmation |-> FALSE]

\* ActionSelector.select_autonomous: the oracle's answer, marked when the
\* frontmost application is a dangerous one
select_autonomous(answer, app) ==
    IF answer.action_type = "None" THEN NoAction
    ELSE [action_type |-> answer.action_type, has_keys |-> answer.has_keys,
          requires_confirmation |-> is_dangerous_app(app.name)]

\* ActionSelector.action_dict_to_step
action_dict_to_step(action, app_info) ==
    ActionStep(action.action_type, app_info.name, app_info.bundle_id,
               action.has_keys)

(***************************************************************************)
(* AutonomousLoop (agent/autonomous_loop.py)                               *)
(***************************************************************************)
StepResult(step, action, res, verified, details) ==
    [step |-> step, action |-> action, result |-> res, verified |-> verified,
     details |-> details]

cap_reachedMutantOffByOne(failures, context) ==
    failures > context.max_consecutive_failures

\* the loop guard on the consecutive-failure counter
cap_reached(failures, context) == failures >= context.max_consecutive_failures

step_outcomeMutantTrustsVerifier(play_success, dry_run, oracle) ==
    IF ~dry_run
    THEN LET verify == verify_step(oracle, dry_run)
         IN [success |-> IF verify.verified THEN verify.success ELSE play_success,
             verified |-> verify.verified]
    ELSE [success |-> play_success, verified |-> FALSE]

\* the success and verified flags of an executed step
step_outcome(play_success, dry_run, oracle) ==
    IF ~dry_run /\ play_success
    THEN LET verify == verify_step(oracle, dry_run)
         IN [success |-> IF verify.verified THEN verify.success ELSE play_success,
             verified |-> verify.verified]
    ELSE [success |-> play_success, verified |-> FALSE]

\* confirm = input(...).strip().lower(); the step runs when confirm == "y"
confirm_of(answer) == Lower(answer)

acceptedMutantUnlessNo(answer) == confirm_of(answer) # <<CH_n>>

accepted(answer) == confirm_of(answer) = <<CH_y>>

\* the replay loop asks before a step on a dangerous application
asks_workflow(context, step) ==
    context.confirm_dangerous /\ is_dangerous_app(step.app_name) /\ ~context.dry_run

\* free exploration asks before an action the selector marked
asks_autonomous(context, action) ==
    action.requires_confirmation /\ context.confirm_dangerous /\ ~context.dry_run

succeeded_count(results) ==
    Cardinality({ k \in 1..Len(results) : results[k].result = "success" })

RECURSIVE failed_indicesMutantOneBased(_)
failed_indicesMutantOneBased(results) ==
    IF results = <<>> THEN <<>>
    ELSE IF Head(results).result # "success"
         THEN <<Head(results).step>> \o failed_indicesMutantOneBased(Tail(results))
         ELSE failed_indicesMutantOneBased(Tail(results))

\* failed_indices = [r["step"] - 1 for r in step_results if r["result"] != "success"]
RECURSIVE failed_indices(_)
failed_indices(results) ==
    IF results = <<>> THEN <<>>
    ELSE IF Head(results).result # "success"
         THEN <<Head(results).step - 1>> \o failed_indices(Tail(results))
         ELSE failed_indices(Tail(results))

ExecutionResult(results, success, goal_achieved) ==
    [success |-> success, steps_executed |-> Len(results),
     steps_succeeded |-> succeeded_count(results),
     steps_failed |-> Len(results) - succeeded_count(results),
     goal_achieved |-> goal_achieved, error |-> FALSE]

\* AutonomousLoop._record_feedback: the feedback it hands to FeedbackStore.record
record_feedback(workflow_id, res, failed, mode) ==
    ExecutionFeedback(workflow_id, res.success, res.steps_executed,
                      res.steps_succeeded, failed, <<>>, mode)

(***************************************************************************)
(* Specification of one execution (AutonomousLoop.run / play_workflow)     *)
(***************************************************************************)
FINDER == [name |-> APP_FINDER, bundle_id |-> TRUE]
MAIL == [name |-> APP_MAIL, bundle_id |-> TRUE]

\* workflows on disk when the execution starts
LoopStore ==
    (1 :> Workflow(NAME_AB, APP_FINDER, {TAG_A},
                   <<CLICK_STEP(APP_FINDER), BAD_KEY_STEP(APP_FINDER),
                     TEXT_STEP(APP_FINDER)>>, 800))
    @@ (2 :> Workflow(NAME_AC, APP_MAIL, {TAG_B},
                      <<CLICK_STEP(APP_MAIL), TEXT_STEP(APP_MAIL),
                        CLICK_STEP(APP_MAIL)>>, 600))

\* goals: one matching a stored workflow, one matching none
Goals == { NAME_AB, NAME_FAR }

\* what the user types at the confirmation prompt
AnswerInputs == { <<CH_y>>, <<CH_y + UPPER_OFFSET>>, <<CH_n>>, <<>> }

\* answers of select_next_action ("None": no answer)
SelectorAnswers ==
    { [action_type |-> t, has_keys |-> FALSE] :
        t \in {"None", "click", "wait", "done"} }

\* answers of check_goal_achieved
GoalChecks == [achieved : BOOLEAN,
               confidence : {GOAL_MIN_CONFIDENCE - 100, GOAL_MIN_CONFIDENCE}]

LoopInit ==
    /\ store = LoopStore
    /\ usedIds = DOMAIN LoopStore
    /\ feedback = << >>
    /\ refines = 0
    /\ LoopIdle
    /\ WatchIdle

\* the loops start with empty step_results and a zero failure counter
EnterLoop ==
    /\ step_results' = <<>>
    /\ consecutive_failures' = 0
    /\ ui_log' = {}
    /\ played' = {}
    /\ prompts' = << >>
    /\ result' = NoResult
    /\ recorded' = <<>>
    /\ goal_log' = NoGoalLog

\* AutonomousLoop.run up to the loop it enters
StartRun ==
    /\ pc = "idle"
    /\ \E goal \in Goals, wid \in {None} \cup DOMAIN store,
          dry_run \in BOOLEAN, confirm \in BOOLEAN,
          max_steps \in {1, MaxRunSteps}, cap \in 1..MaxFailCap,
          app \in {FINDER, MAIL}, parameters \in BOOLEAN :
        LET by_id == IF wid # None THEN get(store, wid) ELSE <<>>
            hits == search(store, goal)
            chosen == IF by_id # <<>> THEN wid
                      ELSE IF hits # <<>> THEN hits[1] ELSE None
        IN /\ ctx' = [goal |-> goal, workflow_id |-> wid, dry_run |-> dry_run,
                      \* the exploration never reads the parameters
                      parameters |-> (parameters /\ chosen # None),
                      confirm_dangerous |-> confirm, max_steps |-> max_steps,
                      max_consecutive_failures |-> cap]
           /\ IF chosen # None
              THEN /\ pc' = "workflow"
                   /\ run_wf' = [id |-> chosen, steps |-> store[chosen].steps]
                   /\ step_num' = 0
                   /\ current_app' = NoApp
              ELSE /\ pc' = "autonomous"
                   /\ run_wf' = NoWorkflow
                   /\ step_num' = 1
                   /\ current_app' = app
    /\ EnterLoop
    /\ UNCHANGED <<procVars, storeVars, watchVars>>

\* AutonomousLoop.play_workflow up to the loop it enters
StartPlayWorkflow ==
    /\ pc = "idle"
    /\ \E wid \in {1, MaxId + 1}, dry_run \in BOOLEAN, parameters \in BOOLEAN :
        LET workflow == get(store, wid) IN
        /\ EnterLoop
        /\ step_num' = 0
        /\ current_app' = NoApp
        /\ IF workflow = <<>>
           THEN /\ pc' = "done"
                /\ ctx' = NoContext
                /\ run_wf' = NoWorkflow
           ELSE /\ pc' = "workflow"
                /\ ctx' = [goal |-> workflow[1].name, workflow_id |-> wid,
                           dry_run |-> dry_run, parameters |-> parameters,
                           confirm_dangerous |-> TRUE,
                           max_steps |-> DEFAULT_MAX_STEPS,
                           max_consecutive_failures |->
                               DEFAULT_MAX_CONSECUTIVE_FAILURES]
                /\ run_wf' = [id |-> wid, steps |-> workflow[1].steps]
    /\ UNCHANGED <<procVars, storeVars, watchVars>>

\* play_action_step, verification, the appended result and the counter
PlayStep(step, k, oracle) ==
    LET play_result == play_action_step(step, ctx.dry_run)
        out == step_outcome(play_result.success, ctx.dry_run, oracle)
    IN /\ step_results' =
            Append(step_results,
                   StepResult(k, step.action_type,
                              IF out.success THEN "success" ELSE "failed",
                              out.verified,
                              <<[success |-> play_result.success]>>))
       /\ consecutive_failures' =
            IF out.success THEN 0 ELSE consecutive_failures + 1
       /\ ui_log' = ui_log \cup
            { [call |-> c, dry_run |-> ctx.dry_run] : c \in play_result.calls }
       /\ played' = played \cup {k}

\* the declined prompt: the result is appended and the loop continues
SkipStep(k, action_type) ==
    /\ step_results' =
         Append(step_results,
                StepResult(k, action_type, "skipped_dangerous", FALSE, <<>>))
    /\ UNCHANGED <<consecutive_failures, ui_log, played>>

\* the prompt (when asked), then the step or its skip
ConfirmAndPlay(asks, step, k, answer, oracle) ==
    IF asks
    THEN /\ prompts' = prompts @@ (k :> confirm_of(answer))
         /\ IF accepted(answer)
            THEN PlayStep(step, k, oracle)
            ELSE SkipStep(k, step.action_type)
    ELSE /\ UNCHANGED prompts
         /\ PlayStep(step, k, oracle)

FinishMutantSavesWorkflow(res, written) ==
    /\ pc' = "done"
    /\ result' = res
    /\ recorded' = written
    /\ feedback' = IF written = <<>> THEN feedback ELSE record(feedback, written[1])
    /\ store' = IF run_wf.id \in DOMAIN store
                THEN [store EXCEPT ![run_wf.id].steps = run_wf.steps]
                ELSE store
    /\ UNCHANGED <<procVars, usedIds, refines, watchVars, ctx, run_wf, step_num, step_results,
                   consecutive_failures, ui_log, played, current_app, prompts>>

\* the end of either loop: the ExecutionResult, and the feedback when written
Finish(res, written) ==
    /\ pc' = "done"
    /\ result' = res
    /\ recorded' = written
    /\ feedback' = IF written = <<>> THEN feedback ELSE record(feedback, written[1])
    /\ UNCHANGED <<procVars, store, usedIds, refines, watchVars, ctx, run_wf, step_num, step_results,
                   consecutive_failures, ui_log, played, current_app, prompts>>

\* one iteration of the loop of _run_workflow
WorkflowStep ==
    /\ pc = "workflow"
    /\ step_num < Len(run_wf.steps)
    /\ ~cap_reached(consecutive_failures, ctx)
    /\ LET step == select_from_workflow(run_wf, step_num, ctx.parameters)[1] IN
       \* the selector writes the replacement into the step of the loaded workflow
       /\ run_wf' = [run_wf EXCEPT !.steps[step_num + 1] = step]
       /\ \E answer \in AnswerInputs, oracle \in VerifyOracle :
              ConfirmAndPlay(asks_workflow(ctx, step), step, step_num + 1,
                             answer, oracle)
    /\ step_num' = step_num + 1
    /\ UNCHANGED <<procVars, storeVars, watchVars, pc, ctx, result, recorded, current_app,
                   goal_log>>

\* _run_workflow after its loop
FinishWorkflow ==
    /\ pc = "workflow"
    /\ \/ step_num >= Len(run_wf.steps)
       \/ cap_reached(consecutive_failures, ctx)
    /\ LET succeeded == succeeded_count(step_results)
           res == ExecutionResult(step_results, succeeded > 0,
                                  succeeded = Len(run_wf.steps))
       IN Finish(res,
                 IF ~ctx.dry_run
                 THEN <<record_feedback(run_wf.id, res,
                                        failed_indices(step_results), "workflow")>>
                 ELSE <<>>)
    /\ UNCHANGED goal_log

AutonomousInLoop ==
    /\ pc = "autonomous"
    /\ step_num <= ctx.max_steps
    /\ ~cap_reached(consecutive_failures, ctx)

goal_check_due(n) == n > 1 /\ n % GOAL_CHECK_INTERVAL = 0

goal_reachedMutantAnyConfidence(goal_check) == goal_check.achieved

goal_reached(goal_check) ==
    goal_check.achieved /\ goal_check.confidence >= GOAL_MIN_CONFIDENCE

\* the answers verifier.check_goal can give at step n: none when no check
\* is due
GoalAnswers(n) ==
    IF goal_check_due(n) THEN GoalChecks
    ELSE { [achieved |-> FALSE, confidence |-> 0] }

\* verifier.check_goal at the steps where it is due; its answer is logged
CheckGoal(log, n, goal_check) ==
    IF goal_check_due(n)
    THEN [log EXCEPT !.checks = Append(@, [step |-> n, check |-> goal_check])]
    ELSE log

\* the iteration of _run_autonomous whose goal check succeeds
AutonomousGoalAchieved ==
    /\ AutonomousInLoop
    /\ goal_check_due(step_num)
    /\ \E goal_check \in GoalChecks :
          /\ goal_reached(goal_check)
          /\ goal_log' = CheckGoal(goal_log, step_num, goal_check)
    /\ LET res == ExecutionResult(step_results, TRUE, TRUE)
       IN Finish(res, <<record_feedback(None, res, failed_indices(step_results),
                                        "autonomous")>>)

\* an iteration of _run_autonomous that stays in the loop
AutonomousStep ==
    /\ AutonomousInLoop
    /\ \E goal_check \in GoalAnswers(step_num), answer \in SelectorAnswers :
        LET selected == select_autonomous(answer, current_app) IN
        /\ goal_check_due(step_num) => ~goal_reached(goal_check)
        /\ selected # NoAction
        /\ selected.action_type # "done"
        /\ goal_log' = [CheckGoal(goal_log, step_num, goal_check)
                           EXCEPT !.action = selected.action_type]
        /\ IF selected.action_type = "wait"
           THEN /\ step_results' =
                     Append(step_results,
                            StepResult(step_num, "wait", "success", FALSE, <<>>))
                /\ UNCHANGED <<consecutive_failures, ui_log, played, prompts>>
           ELSE \E typed \in AnswerInputs, oracle \in VerifyOracle :
                    ConfirmAndPlay(asks_autonomous(ctx, selected),
                                   action_dict_to_step(selected, current_app),
                                   step_num, typed, oracle)
    /\ step_num' = step_num + 1
    /\ UNCHANGED <<procVars, storeVars, watchVars, pc, ctx, run_wf, result, recorded, current_app>>

\* _run_autonomous after its loop: the range is exhausted, the cap is
\* reached, or the selector gave nothing or "done"
FinishAutonomous ==
    /\ pc = "autonomous"
    /\ \/ /\ \/ step_num > ctx.max_steps
             \/ cap_reached(consecutive_failures, ctx)
          /\ UNCHANGED goal_log
       \/ /\ AutonomousInLoop
          /\ \E goal_check \in GoalAnswers(step_num), answer \in SelectorAnswers :
                LET selected == select_autonomous(answer, current_app) IN
                /\ goal_check_due(step_num) => ~goal_reached(goal_check)
                /\ selected = NoAction \/ selected.action_type = "done"
                /\ goal_log' = [CheckGoal(goal_log, step_num, goal_check)
                                   EXCEPT !.action =
                                       IF selected = NoAction THEN "None"
                                       ELSE selected.action_type]
    /\ LET res == ExecutionResult(step_results, succeeded_count(step_results) > 0,
                                  FALSE)
       IN Finish(res, <<record_feedback(None, res, failed_indices(step_results),
                                        "autonomous")>>)

LoopNext ==
    \/ StartRun
    \/ StartPlayWorkflow
    \/ WorkflowStep
    \/ FinishWorkflow
    \/ AutonomousStep
    \/ AutonomousGoalAchieved
    \/ FinishAutonomous

LoopSpec == LoopInit /\ [][LoopNext]_vars


(***************************************************************************)
(* Capture directory: FileWatcher, SessionBuilder and LearningPipeline     *)
(* (pipeline/), and WorkflowExtractor.extract_incremental (agent/).        *)
(* A capture file cap_<n>.json is its number n, so that sorted() is the    *)
(* ascending order of the numbers; its content is the timestamp in seconds *)
(* and whether the file parses as JSON.  Every capture is of one           *)
(* application.  The skills directory the pipeline writes is not read by   *)
(* any operation below and is left out.                                    *)
(***************************************************************************)
FileNames == 1..MaxFiles

\* timestamps in seconds: equal, or a session gap (and so a segment gap) apart
Timestamps == { 0, SESSION_GAP }

CaptureFile(timestamp, ok) == [timestamp |-> timestamp, ok |-> ok]

\* sorted(paths)
RECURSIVE sorted(_)
sorted(S) ==
    IF S = {} THEN <<>>
    ELSE LET x == CHOOSE y \in S : \A z \in S : y <= z
         IN <<x>> \o sorted(S \ {x})

load_processedMutantForgets(log) == {}

\* FileWatcher._load_processed: the set of the lines of _processed.txt
load_processed(log) == { log[k] : k \in 1..Len(log) }

\* FileWatcher.scan_new_files
scan_new_files(dir, proc) == sorted(DOMAIN dir \ proc)

\* FileWatcher.mark_processed on w = [processed, log]
mark_processed(w, name) ==
    [processed |-> w.processed \cup {name}, log |-> Append(w.log, name)]

\* FileWatcher.load_record: the CaptureRecord of a file that parses
load_record(dir, name) == [name |-> name, timestamp |-> dir[name].timestamp]

\* SessionBuilder.add_record: the session returned (<<>> for None) and the
\* buffer left
add_record(buf, rec) ==
    LET gap_split == rec.timestamp - buf[Len(buf)].timestamp >= SESSION_GAP
        max_split == Len(buf) >= SESSION_MAX
    IN IF Len(buf) > 0 /\ (gap_split \/ max_split)
       THEN [session |-> buf, buffer |-> <<rec>>]
       ELSE [session |-> <<>>, buffer |-> Append(buf, rec)]

\* CleanupManager.cleanup_session: the capture files of the session are deleted
cleanup_session(dir, session) ==
    [n \in DOMAIN dir \ { session[k].name : k \in 1..Len(session) } |-> dir[n]]

\* CleanupManager.cleanup_old_files: old holds the files past the retention
cleanup_old_files(dir, old) == [n \in DOMAIN dir \ old |-> dir[n]]

\* one more capture handed to the session builder (who = "pipeline") or to
\* the segmenter (who = "agent")
feed(fd, who, rec) ==
    LET n == rec.name
        bag == fd[who]
        bag2 == [m \in DOMAIN bag \cup {n} |->
                    IF m \in DOMAIN bag
                    THEN (IF m = n THEN bag[m] + 1 ELSE bag[m])
                    ELSE 1]
    IN [fd EXCEPT ![who] = bag2, !.last = Append(fd.last, rec.timestamp)]

\* _process_session(session): each capture of the session is counted in
\* fd.handed, the sessions a capture was handed over in
process_session(fd, session) ==
    LET names == { session[k].name : k \in 1..Len(session) }
        bag == fd.handed
    IN [fd EXCEPT !.handed =
           [m \in DOMAIN bag \cup names |->
               (IF m \in DOMAIN bag THEN bag[m] ELSE 0)
               + (IF m \in names THEN 1 ELSE 0)]]

\* the loop "for file in new_files" of _process_cycle from index k on, on
\* ws = [dir, processed, log, buffer, fed, crashed]; json.load raises on a
\* file that does not parse and nothing catches it
RECURSIVE process_files(_, _, _)
process_files(ws, files, k) ==
    IF k > Len(files) THEN ws
    ELSE IF ~ws.dir[files[k]].ok THEN [ws EXCEPT !.crashed = TRUE]
    ELSE LET rec == load_record(ws.dir, files[k])
             r == add_record(ws.buffer, rec)
             w == mark_processed([processed |-> ws.processed, log |-> ws.log],
                                 files[k])
         IN process_files(
                [ws EXCEPT !.dir = IF r.session # <<>>
                                   THEN cleanup_session(ws.dir, r.session)
                                   ELSE ws.dir,
                           !.buffer = r.buffer,
                           !.processed = w.processed,
                           !.log = w.log,
                           !.fed = feed(IF r.session # <<>>
                                        THEN process_session(ws.fed, r.session)
                                        ELSE ws.fed,
                                        "pipeline", rec)],
                files, k + 1)

\* the lines of _agent_processed.txt extract_incremental reads
processed_set(log) == { log[k] : k \in 1..Len(log) }

\* WorkflowExtractor._load_all_captures: files that do not parse are skipped
load_all_captures(dir) == { n \in DOMAIN dir : dir[n].ok }

\* the orders captures.sort(key=timestamp) can leave the captures in: the
\* sort is stable and glob returns the files in any order
SortedByTimestamp(dir, S) ==
    { q \in [1..Cardinality(S) -> S] :
        /\ \A i, j \in 1..Cardinality(S) : i # j => q[i] # q[j]
        /\ \A i, j \in 1..Cardinality(S) :
              i < j => dir[q[i]].timestamp <= dir[q[j]].timestamp }

\* build_segments_from_captures on the sorted captures from index k on:
\* current is current_segment, the result the list of segments
RECURSIVE build_segments_from_captures(_, _, _, _)
build_segments_from_captures(dir, captures, k, current) ==
    IF k > Len(captures)
    THEN (IF current # <<>> THEN <<current>> ELSE <<>>)
    ELSE LET ts == dir[captures[k]].timestamp
             should_split ==
                 /\ current # <<>>
                 /\ \/ ts - dir[current[Len(current)]].timestamp >= SEGMENT_GAP_SECONDS
                    \/ Len(current) >= SEGMENT_MAX_ACTIONS
         IN IF should_split
            THEN <<current>> \o build_segments_from_captures(dir, captures, k + 1,
                                                             <<captures[k]>>)
            ELSE build_segments_from_captures(dir, captures, k + 1,
                                              Append(current, captures[k]))

\* _build_segment_data: one step per capture
build_segment_data(captures) ==
    [app_name |-> APP_FINDER,
     steps |-> [k \in 1..Len(captures) |-> CLICK_STEP(APP_FINDER)]]

\* answers of analyze_workflow_segment for a segment
SegmentAnswers ==
    { OracleResult(TRUE, NAME_AB, {TAG_A}, 800),
      OracleResult(FALSE, NAME_AB, {}, 0) }

RECURSIVE feed_all(_, _, _, _)
feed_all(fd, dir, captures, k) ==
    IF k > Len(captures) THEN fd
    ELSE feed_all(feed(fd, "agent", load_record(dir, captures[k])),
                  dir, captures, k + 1)

(***************************************************************************)
(* Specification of the capture directory: captures are written, the       *)
(* pipeline is started, scans and stops, the agent extracts incrementally  *)
(***************************************************************************)
WatchInit ==
    /\ store = << >>
    /\ usedIds = {}
    /\ feedback = << >>
    /\ refines = 0
    /\ LoopIdle
    /\ WatchIdle

\* the capture loop writes one more capture file
AddFile ==
    \E name \in FileNames \ added, timestamp \in Timestamps, ok \in BOOLEAN :
        /\ watch_dir' = watch_dir @@ (name :> CaptureFile(timestamp, ok))
        /\ added' = added \cup {name}
        /\ UNCHANGED <<procVars, processed, processed_log, agent_log, buffer, pipeline_pc,
                       cycles, fed, ai_calls, storeVars, loopVars>>

\* LearningPipeline.__init__: a new FileWatcher and SessionBuilder
PipelineStart ==
    /\ pipeline_pc \in {"stopped", "crashed"}
    /\ pipeline_pc' = "running"
    /\ processed' = load_processed(processed_log)
    /\ buffer' = <<>>
    /\ UNCHANGED <<procVars, watch_dir, added, processed_log, agent_log, cycles, fed,
                   ai_calls, storeVars, loopVars>>

\* LearningPipeline.stop
PipelineStop ==
    /\ pipeline_pc = "running"
    /\ pipeline_pc' = "stopped"
    /\ UNCHANGED <<procVars, watch_dir, added, processed, processed_log, agent_log, buffer,
                   cycles, fed, ai_calls, storeVars, loopVars>>

\* LearningPipeline._process_cycle inside run(): an exception leaves run()
ProcessCycle ==
    /\ pipeline_pc = "running"
    /\ cycles < MaxCycles
    /\ \E old \in SUBSET (DOMAIN watch_dir) :
        LET ws == process_files(
                      [dir |-> watch_dir, processed |-> processed,
                       log |-> processed_log, buffer |-> buffer,
                       fed |-> [fed EXCEPT !.last = <<>>], crashed |-> FALSE],
                      scan_new_files(watch_dir, processed), 1)
        IN /\ watch_dir' = IF ws.crashed THEN ws.dir
                           ELSE cleanup_old_files(ws.dir, old \cap DOMAIN ws.dir)
           /\ pipeline_pc' = IF ws.crashed THEN "crashed" ELSE "running"
           /\ processed' = ws.processed
           /\ processed_log' = ws.log
           /\ buffer' = ws.buffer
           /\ fed' = ws.fed
    /\ cycles' = cycles + 1
    /\ UNCHANGED <<procVars, added, agent_log, ai_calls, storeVars, loopVars>>

\* WorkflowExtractor.extract_incremental
ExtractIncremental ==
    /\ cycles < MaxCycles
    /\ cycles' = cycles + 1
    /\ LET new_captures == load_all_captures(watch_dir) \ processed_set(agent_log) IN
       IF new_captures = {}
       THEN UNCHANGED <<procVars, store, usedIds, agent_log, fed>>
       ELSE \E captures \in SortedByTimestamp(watch_dir, new_captures) :
            LET segments == build_segments_from_captures(watch_dir, captures, 1, <<>>) IN
            \E answers \in [1..Len(segments) -> SegmentAnswers] :
            LET inputs == [k \in 1..Len(segments) |->
                              [segment |-> build_segment_data(segments[k]),
                               res |-> answers[k]]]
                es == extract_all(store, inputs, FreshIds(IdSet \ usedIds))
            IN /\ es.ok
               /\ store' = es.disk
               /\ usedIds' = usedIds \cup DOMAIN es.disk
               /\ agent_log' = agent_log \o captures
               /\ fed' = feed_all([fed EXCEPT !.last = <<>>], watch_dir, captures, 1)
    /\ UNCHANGED <<procVars, watch_dir, added, processed, processed_log, buffer, pipeline_pc,
                   ai_calls, feedback, refines, loopVars>>

\* LearningPipeline(config).run_once(): a new FileWatcher and
\* SessionBuilder, one cycle, then flush() and the session it returns
RunOnce ==
    /\ pipeline_pc \in {"stopped", "crashed"}
    /\ cycles < MaxCycles
    /\ \E old \in SUBSET (DOMAIN watch_dir) :
        LET loaded == load_processed(processed_log)
            ws == process_files(
                      [dir |-> watch_dir, processed |-> loaded,
                       log |-> processed_log, buffer |-> <<>>,
                       fed |-> [fed EXCEPT !.last = <<>>], crashed |-> FALSE],
                      scan_new_files(watch_dir, loaded), 1)
            cleaned == cleanup_old_files(ws.dir, old \cap DOMAIN ws.dir)
            remaining == ws.buffer
        IN /\ processed' = ws.processed
           /\ processed_log' = ws.log
           /\ IF ws.crashed
              THEN /\ watch_dir' = ws.dir
                   /\ pipeline_pc' = "crashed"
                   /\ buffer' = ws.buffer
                   /\ fed' = ws.fed
              ELSE /\ pipeline_pc' = "stopped"
                   /\ buffer' = <<>>
                   /\ IF remaining # <<>>
                      THEN /\ fed' = process_session(ws.fed, remaining)
                           /\ watch_dir' = cleanup_session(cleaned, remaining)
                      ELSE /\ fed' = ws.fed
                           /\ watch_dir' = cleaned
    /\ cycles' = cycles + 1
    /\ UNCHANGED <<procVars, added, agent_log, ai_calls, storeVars, loopVars>>

WatchNext ==
    AddFile \/ PipelineStart \/ PipelineStop \/ ProcessCycle \/ ExtractIncremental

WatchSpec == WatchInit /\ [][WatchNext]_vars

(***************************************************************************)
(* Specification of the pipeline process: captures are written, the        *)
(* pipeline runs as a daemon (run) or once (run_once), stops and is        *)
(* started again                                                           *)
(***************************************************************************)
PipelineNext ==
    AddFile \/ PipelineStart \/ PipelineStop \/ ProcessCycle \/ RunOnce

PipelineSpec == WatchInit /\ [][PipelineNext]_vars

\* while run() is not stopped its loop keeps starting cycles
PipelineFairSpec == PipelineSpec /\ WF_vars(ProcessCycle)

(***************************************************************************)
(* Specification of the FileWatcher alone: captures are written and a      *)
(* caller marks paths as processed                                         *)
(***************************************************************************)
\* FileWatcher.mark_processed(path), for any path a caller passes
MarkProcessed ==
    \E name \in FileNames :
        LET w == mark_processed([processed |-> processed, log |-> processed_log],
                                name) IN
        /\ Len(processed_log) < MaxLog
        /\ processed' = w.processed
        /\ processed_log' = w.log
        /\ UNCHANGED <<procVars, watch_dir, added, agent_log, buffer, pipeline_pc, cycles,
                       fed, ai_calls, storeVars, loopVars>>

WatcherNext == AddFile \/ MarkProcessed

WatcherSpec == WatchInit /\ [][WatcherNext]_vars

(***************************************************************************)
(* Specification of the extractor alone: learn cycles over segments whose  *)
(* names differ in case only, repeat, or fall below the confidence bound   *)
(***************************************************************************)
NAME_AB_UPPER == <<CH_a + UPPER_OFFSET, CH_b>>

DedupIds == 1..MaxDedupId

DedupInputs ==
    { [segment |-> SEG_SHORT, res |-> OracleResult(TRUE, NAME_AB, {TAG_A}, 600)],
      [segment |-> SEG_SHORT, res |-> OracleResult(TRUE, NAME_AB_UPPER, {TAG_A}, 800)],
      [segment |-> SEG_LONG, res |-> OracleResult(TRUE, NAME_AB, {TAG_B}, 800)],
      [segment |-> SEG_SHORT, res |-> OracleResult(TRUE, NAME_FAR, {}, 600)],
      [segment |-> SEG_SHORT, res |-> OracleResult(TRUE, NAME_FAR, {}, 400)],
      [segment |-> SEG_LONG, res |-> OracleResult(TRUE, NAME_FAR, {}, 900)],
      [segment |-> SEG_SHORT, res |-> OracleResult(TRUE, NAME_AB, {TAG_A}, Scale)] }

\* the segments of a watch directory with their oracle answers
Directories == SeqsUpTo(DedupInputs, MaxSegments)

\* WorkflowExtractor.extract_all / extract_incremental
DedupExtract ==
    \E inputs \in Directories :
        LET es == extract_all(store, inputs, FreshIds(DedupIds \ usedIds)) IN
        /\ es.ok
        /\ store' = es.disk
        /\ usedIds' = usedIds \cup DOMAIN es.disk
        /\ UNCHANGED <<procVars, feedback, refines, loopVars, watchVars>>

DedupNext == DedupExtract

DedupSpec == LineageInit /\ [][DedupNext]_vars

(***************************************************************************)
(* Oracle adapter (pipeline/ai_client.py).  A call of the provider ends in *)
(* one of TransportOutcomes; a Python call either returns a value or       *)
(* raises, exc naming the exception class ("none" when it returned)        *)
(***************************************************************************)
TransportOutcomes ==
    { "error",           \* the request raises (network, API error, retries used up)
      "no_text",         \* the response carries no text (None)
      "not_json",        \* the text is not JSON
      "json_scalar",     \* the text is JSON but not an object
      "object_yes",      \* an object with every key, its flag true
      "object_no",       \* an object with every key, its flag false
      "object_partial" } \* an object with its flag true and keys missing

Returned(value) == [exc |-> "none", value |-> value]
Raised(exc) == [exc |-> exc, value |-> "none"]

\* json.loads of a response text
json_loads(text) ==
    IF text = "no_text" THEN Raised("TypeError")
    ELSE IF text = "not_json" THEN Raised("JSONDecodeError")
    ELSE Returned(text)

\* _strip_markdown_json: re.search raises on None
strip_markdown_json(text) ==
    IF text = "no_text" THEN Raised("TypeError") ELSE Returned(text)

\* _generate_text / _generate_vision: the response text
generate_text(outcome) ==
    IF outcome = "error" THEN Raised("Exception") ELSE Returned(outcome)

\* _generate_json: json.loads of the response text
generate_json(outcome) ==
    IF outcome = "error" THEN Raised("Exception") ELSE json_loads(outcome)

CatchAllMutantRethrows(r, neutral) == r

\* try: r  except Exception: return neutral
CatchAll(r, neutral) ==
    IF r.exc # "none" THEN Returned(neutral) ELSE r

\* try: r  except json.JSONDecodeError: return neutral
CatchDecodeError(r, neutral) ==
    IF r.exc = "JSONDecodeError" THEN Returned(neutral) ELSE r

\* data.get(flag, False) and the data[key] reads on the parsed answer
read_object(g, on_yes, on_partial) ==
    IF g.exc # "none" THEN g
    ELSE IF g.value = "json_scalar" THEN Raised("AttributeError")
    ELSE IF g.value = "object_no" THEN Returned("null")
    ELSE IF g.value = "object_partial" THEN on_partial
    ELSE Returned(on_yes)

\* json.loads(_strip_markdown_json(text)) inside the inner try
parse_text(g, neutral) ==
    IF g.exc # "none" THEN g
    ELSE LET stripped == strip_markdown_json(g.value) IN
         IF stripped.exc # "none" THEN stripped
         ELSE CatchDecodeError(json_loads(stripped.value), neutral)

analyze_session(outcome) ==
    CatchAll(IF generate_text(outcome).exc # "none" THEN generate_text(outcome)
             ELSE Returned("summary"),
             "error_dict")

extract_skill(outcome) ==
    CatchAll(read_object(generate_json(outcome), "skill", Raised("KeyError")), "null")

analyze_workflow_segment(outcome) ==
    CatchAll(read_object(generate_json(outcome), "data", Returned("data")), "null")

select_next_action(outcome) ==
    CatchAll(generate_json(outcome), "null")

verify_execution(outcome) ==
    CatchAll(parse_text(generate_text(outcome), "success_false"), "success_false")

check_goal_achieved(outcome) ==
    CatchAll(parse_text(generate_text(outcome), "achieved_false"), "achieved_false")

find_element_by_vision(outcome) ==
    CatchAll(parse_text(generate_text(outcome), "null"), "null")

Operations ==
    { "analyze_session", "extract_skill", "analyze_workflow_segment",
      "select_next_action", "verify_execution", "check_goal_achieved",
      "find_element_by_vision" }

\* the public method op called while the provider behaves as outcome
call_oracle(op, outcome) ==
    CASE op = "analyze_session" -> analyze_session(outcome)
      [] op = "extract_skill" -> extract_skill(outcome)
      [] op = "analyze_workflow_segment" -> analyze_workflow_segment(outcome)
      [] op = "select_next_action" -> select_next_action(outcome)
      [] op = "verify_execution" -> verify_execution(outcome)
      [] op = "check_goal_achieved" -> check_goal_achieved(outcome)
      [] op = "find_element_by_vision" -> find_element_by_vision(outcome)

(***************************************************************************)
(* Specification of the oracle adapter: callers call its public methods    *)
(***************************************************************************)
CallOracle ==
    \E op \in Operations, outcome \in TransportOutcomes :
        /\ Len(ai_calls) < MaxCalls
        /\ ai_calls' = Append(ai_calls, [op |-> op, outcome |-> outcome,
                                         result |-> call_oracle(op, outcome)])
        /\ UNCHANGED <<procVars, watch_dir, added, processed, processed_log, agent_log,
                       buffer, pipeline_pc, cycles, fed, storeVars, loopVars>>

OracleNext == CallOracle

OracleSpec == WatchInit /\ [][OracleNext]_vars

(***************************************************************************)
(* Specification of the daemon loops: ContinuousLearner.run and            *)
(* LearningPipeline.run, each in its own thread, and stop() called from    *)
(* the signal handler.  A cycle is taken as one step here; what a cycle    *)
(* does to the stores is the subject of WatchSpec.  Sleeping is counted in *)
(* whole seconds.                                                          *)
(***************************************************************************)
\* the sleep between two cycles, in seconds
poll(d) == IF d = "ContinuousLearner" THEN POLL_INTERVAL ELSE POLL_SEC

\* run(): self._running = True
DaemonRun(d) ==
    /\ daemon[d].pc \in {"idle", "started"}
    /\ daemon' = [daemon EXCEPT ![d].running = TRUE, ![d].pc = "while"]
    /\ UNCHANGED <<learnVars, retry, json_file, merge_log, segmenter, storeVars, loopVars, watchVars>>

\* while self._running: the flag is read; a new cycle starts or run() returns
\* (the cycles are counted up to MaxDaemonCycles; the loop goes on after that)
WhileRunning(d) ==
    /\ daemon[d].pc = "while"
    /\ IF daemon[d].running
       THEN daemon' = [daemon EXCEPT
                         ![d].pc = "cycle",
                         ![d].cycles = IF @ < MaxDaemonCycles THEN @ + 1 ELSE @,
                         ![d].late = 0]
       ELSE daemon' = [daemon EXCEPT ![d].pc = "done", ![d].late = 0]
    /\ UNCHANGED <<learnVars, retry, json_file, merge_log, segmenter, storeVars, loopVars, watchVars>>

\* run_once() / _process_cycle() returns and the sleep starts
RunCycle(d) ==
    /\ daemon[d].pc = "cycle"
    /\ daemon' = [daemon EXCEPT ![d].pc = "sleep", ![d].left = poll(d)]
    /\ UNCHANGED <<learnVars, retry, json_file, merge_log, segmenter, storeVars, loopVars, watchVars>>

\* ContinuousLearner: for _ in range(poll_interval): if not self._running:
\* break; time.sleep(1)
LearnerSleep ==
    LET d == "ContinuousLearner" IN
    /\ daemon[d].pc = "sleep"
    /\ IF daemon[d].left = 0 \/ ~daemon[d].running
       THEN daemon' = [daemon EXCEPT ![d].pc = "while", ![d].left = 0,
                                     ![d].late = 0]
       ELSE daemon' = [daemon EXCEPT ![d].pc = "sleep(1)", ![d].late = 0]
    /\ UNCHANGED <<learnVars, retry, json_file, merge_log, segmenter, storeVars, loopVars, watchVars>>

\* one second of sleep goes by: the whole of time.sleep(1) in the learner,
\* one second of time.sleep(poll_sec) in the pipeline
SleepOneSecond(d) ==
    /\ daemon[d].pc = IF d = "ContinuousLearner" THEN "sleep(1)" ELSE "sleep"
    /\ LET left == daemon[d].left - 1
           late == IF daemon[d].running THEN 0 ELSE daemon[d].late + 1
       IN  daemon' = [daemon EXCEPT
                ![d].left = left,
                ![d].late = late,
                ![d].pc = IF d = "ContinuousLearner" THEN "sleep"
                          ELSE IF left = 0 THEN "while" ELSE "sleep"]
    /\ UNCHANGED <<learnVars, retry, json_file, merge_log, segmenter, storeVars, loopVars, watchVars>>

\* stop(): self._running = False, while run() is executing
DaemonStop(d) ==
    /\ daemon[d].pc \notin {"idle", "done"}
    /\ daemon[d].running
    /\ daemon' = [daemon EXCEPT ![d].running = FALSE, ![d].stop_called = TRUE]
    /\ UNCHANGED <<learnVars, retry, json_file, merge_log, segmenter, storeVars, loopVars, watchVars>>

\* the steps of the thread that executes run()
DaemonStep(d) ==
    \/ DaemonRun(d)
    \/ WhileRunning(d)
    \/ RunCycle(d)
    \/ d = "ContinuousLearner" /\ LearnerSleep
    \/ SleepOneSecond(d)

DaemonNext == \E d \in Daemons : DaemonStep(d) \/ DaemonStop(d)

DaemonSpec == WatchInit /\ [][DaemonNext]_vars

\* each run() has a thread of its own, which the interpreter keeps scheduling
DaemonFairSpec == DaemonSpec /\ \A d \in Daemons : WF_vars(DaemonStep(d))

(***************************************************************************)
(* Specification of the start of the daemon loops: cmd_watch starts        *)
(* ContinuousLearner.run in a thread and calls stop() on Ctrl+C; main      *)
(* installs the signal handlers that call LearningPipeline.stop() and then *)
(* calls run().  From then on stop() can run before the first statement of *)
(* run().                                                                  *)
(***************************************************************************)
\* thread.start() / signal.signal(...): run() is about to execute
StartThread(d) ==
    /\ daemon[d].pc = "idle"
    /\ daemon' = [daemon EXCEPT ![d].pc = "started"]
    /\ UNCHANGED <<learnVars, retry, json_file, merge_log, segmenter, storeVars, loopVars, watchVars>>

\* stop(): self._running = False, before run() has executed a statement
StopBeforeRun(d) ==
    /\ daemon[d].pc = "started"
    /\ ~daemon[d].stop_called
    /\ daemon' = [daemon EXCEPT ![d].running = FALSE, ![d].stop_called = TRUE]
    /\ UNCHANGED <<learnVars, retry, json_file, merge_log, segmenter, storeVars, loopVars, watchVars>>

ThreadNext ==
    \E d \in Daemons :
        \/ StartThread(d)
        \/ StopBeforeRun(d)
        \/ DaemonStep(d)
        \/ DaemonStop(d)

ThreadSpec == WatchInit /\ [][ThreadNext]_vars

\* the thread of run() keeps being scheduled; stop() is up to the user
ThreadFairSpec == ThreadSpec /\ \A d \in Daemons : WF_vars(DaemonStep(d))

(***************************************************************************)
(* Specification of the workflow file format: a file is a JSON object, a   *)
(* function from keys to values; it is written by any writer of the format *)
(* and read and written back by the store (get / list_all, then save)      *)
(***************************************************************************)
\* the fields of the Workflow dataclass
WorkflowFields ==
    {"workflow_id", "name", "description", "steps", "app_name", "tags",
     "parameters", "confidence", "source_session_ids", "created_at",
     "status", "execution_count", "parent_id"}

\* the defaults of Workflow.from_dict
FieldDefault(k) ==
    CASE k \in {"workflow_id", "name", "description", "app_name",
                "created_at"} -> <<>>
      [] k \in {"steps", "tags", "parameters", "source_session_ids"} -> <<>>
      [] k \in {"confidence", "execution_count"} -> 0
      [] k = "status" -> "draft"
      [] k = "parent_id" -> None

\* Workflow.from_dict: d.get(field, default) for every field of the dataclass
from_dict(d) ==
    [k \in WorkflowFields |-> IF k \in DOMAIN d THEN d[k] ELSE FieldDefault(k)]

\* Workflow.to_dict: the fields of the dataclass
to_dict(wf) == [k \in WorkflowFields |-> wf[k]]

\* keys a written file may carry in the model: six fields of the dataclass
\* and one key outside it
FileKeys == {"workflow_id", "name", "status", "confidence", "execution_count",
             "parent_id", "schema_version"}

FileValue(k) ==
    CASE k = "workflow_id" -> 1
      [] k = "name" -> NAME_AB
      [] k = "status" -> "active"
      [] k = "confidence" -> 800
      [] k = "execution_count" -> 4
      [] k = "parent_id" -> 2
      [] k = "schema_version" -> 2

\* a writer of the format writes the file
WriteFile ==
    \E keys \in SUBSET FileKeys :
        /\ json_file' = [written |-> [k \in keys |-> FileValue(k)],
                         data |-> [k \in keys |-> FileValue(k)]]
        /\ UNCHANGED <<learnVars, retry, daemon, merge_log, segmenter, storeVars, loopVars, watchVars>>

\* WorkflowStore.get (json.loads, Workflow.from_dict) followed by
\* WorkflowStore.save (to_dict, json.dumps) of the object read
ReadAndSave ==
    /\ json_file' = [json_file EXCEPT !.data = to_dict(from_dict(json_file.data))]
    /\ UNCHANGED <<learnVars, retry, daemon, merge_log, segmenter, storeVars, loopVars, watchVars>>

FileNext == WriteFile \/ ReadAndSave

FileSpec == WatchInit /\ [][FileNext]_vars

(***************************************************************************)
(* Specification of variant generation: a stored workflow, feedbacks for   *)
(* it and for its variants, and refine passes                              *)
(***************************************************************************)
VariantIds == 1..MaxVariantId

VariantRecord ==
    \E wid \in DOMAIN store : \E f \in FeedbackInputs(wid) :
        /\ Count(feedback) < MaxVariantFeedback
        /\ Record(f)

\* WorkflowRefiner.refine_all
VariantRefine ==
    LET ps == refine_all(store, feedback, FreshIds(VariantIds \ usedIds)) IN
    /\ refines < MaxVariantRefine
    /\ refines' = refines + 1
    /\ ps.ok
    /\ store' = ps.disk
    /\ usedIds' = usedIds \cup DOMAIN ps.disk
    /\ UNCHANGED <<procVars, feedback, loopVars, watchVars>>

VariantNext == VariantRecord \/ VariantRefine

VariantSpec == LifecycleInit /\ [][VariantNext]_vars

(***************************************************************************)
(* Specification of merging: workflows of one application with close       *)
(* names are saved into the store, and refine passes merge them            *)
(***************************************************************************)
MergeIds == 1..MaxMergeId
NAME_BC == <<CH_b, CH_c>>
TAG_C == <<CH_c>>

\* a workflow that has been replayed n times
Replayed(wf, n) == [wf EXCEPT !.execution_count = n, !.status = "tested"]

MergeInputs ==
    { Replayed(Workflow(NAME_AB, APP_FINDER, {TAG_A}, SEG_SHORT.steps, 800), 2),
      Replayed(Workflow(NAME_AC, APP_FINDER, {TAG_A, TAG_B}, SEG_SHORT.steps, 600), 1),
      Replayed(Workflow(NAME_BC, APP_FINDER, {TAG_A, TAG_B, TAG_C}, SEG_SHORT.steps, 700), 4),
      Workflow(NAME_AC, APP_FINDER, {TAG_A, TAG_B}, SEG_LONG.steps, 900),
      Workflow(NAME_AB, APP_FINDER, {TAG_A}, SEG_LONG.steps, 500),
      [Workflow(NAME_BC, APP_FINDER, {TAG_A}, SEG_LONG.steps, 640) EXCEPT !.parent_id = 1] }

\* a workflow is saved under a new identifier; no other workflow of the
\* store has its name (extract_all sees to that)
AddWorkflow ==
    \E wf \in MergeInputs :
        LET fresh == FreshIds(MergeIds \ usedIds) IN
        /\ Len(fresh) > 0
        /\ find_duplicate(store, wf.name) = None
        /\ wf.parent_id # None => wf.parent_id \in DOMAIN store
        /\ store' = save(store, Head(fresh), wf)
        /\ usedIds' = usedIds \cup {Head(fresh)}
        /\ UNCHANGED <<learnVars, retry, feedback, refines, loopVars, watchVars, daemon, json_file,
                       merge_log, segmenter>>

\* WorkflowRefiner.refine_all on a store without feedbacks: the loop over
\* the workflows, then _merge_similar
MergePass ==
    LET workflows == list_all(store)
        ps == refine_from([mem |-> store, disk |-> store, fresh |-> <<>>,
                           ok |-> TRUE], feedback, workflows, 1)
        ms == merge_from([mem |-> ps.mem, disk |-> ps.disk, merged |-> {},
                          absorbed |-> <<>>, count |-> 0], workflows, 1)
    IN /\ store # << >>
       /\ store' = ms.disk
       /\ merge_log' = [order |-> workflows, merges |-> ms.absorbed]
       /\ UNCHANGED <<learnVars, retry, usedIds, feedback, refines, loopVars, watchVars, daemon,
                      json_file, segmenter>>

MergeNext == AddWorkflow \/ MergePass

MergeSpec == LineageInit /\ [][MergeNext]_vars

(***************************************************************************)
(* Specification of the segmenters: a SessionBuilder is given records one  *)
(* by one and flushed, and build_segments_from_captures is given the       *)
(* records as one list.  A record has a number n, the application name and *)
(* the timestamp (None when the string does not parse).                    *)
(***************************************************************************)
CaptureRecord(n, app, timestamp) == [n |-> n, app |-> app, timestamp |-> timestamp]

\* timestamps in seconds; None for a string no format parses
SegmenterTimestamps == {None, 100, 300, 500}

\* SessionBuilder.add_record: the session returned (<<>> for None) and the
\* builder afterwards
SessionBuilder_add_recordMutantNoAppSplit(sb, rec) ==
    LET buf == sb.buffer
        prev == buf[Len(buf)]
        should_split ==
            /\ Len(buf) > 0
            /\ \/ /\ prev.timestamp # None
                  /\ rec.timestamp # None
                  /\ rec.timestamp - prev.timestamp >= sb.gap_seconds
               \/ Len(buf) >= sb.max_records
    IN [session |-> IF should_split THEN buf ELSE <<>>,
        sb |-> [sb EXCEPT
                  !.buffer = Append(IF should_split THEN <<>> ELSE buf, rec),
                  !.last_app = rec.app]]

SessionBuilder_add_record(sb, rec) ==
    LET buf == sb.buffer
        prev == buf[Len(buf)]
        should_split ==
            /\ Len(buf) > 0
            /\ \/ /\ prev.timestamp # None
                  /\ rec.timestamp # None
                  /\ rec.timestamp - prev.timestamp >= sb.gap_seconds
               \/ rec.app # sb.last_app
               \/ Len(buf) >= sb.max_records
    IN [session |-> IF should_split THEN buf ELSE <<>>,
        sb |-> [sb EXCEPT
                  !.buffer = Append(IF should_split THEN <<>> ELSE buf, rec),
                  !.last_app = rec.app]]

SessionBuilder_flushMutantKeepsBuffer(sb) ==
    [session |-> sb.buffer, sb |-> [sb EXCEPT !.last_app = None]]

\* SessionBuilder.flush: the session returned (<<>> for None) and the
\* builder afterwards
SessionBuilder_flush(sb) ==
    IF sb.buffer = <<>> THEN [session |-> <<>>, sb |-> sb]
    ELSE [session |-> sb.buffer,
          sb |-> [sb EXCEPT !.buffer = <<>>, !.last_app = None]]

\* sort key of a rec: the timestamp string; one that does not parse is
\* taken to be the empty string, which sorts first
timestamp_key(rec) ==
    IF rec.timestamp = None THEN 0 - 1 ELSE rec.timestamp

\* captures.sort(key=timestamp): stable
RECURSIVE sort_captures(_)
sort_captures(captures) ==
    IF captures = <<>> THEN <<>>
    ELSE LET k == CHOOSE i \in 1..Len(captures) :
                     \A j \in 1..Len(captures) :
                        \/ timestamp_key(captures[i]) < timestamp_key(captures[j])
                        \/ /\ timestamp_key(captures[i]) = timestamp_key(captures[j])
                           /\ i <= j
         IN <<captures[k]>> \o
            sort_captures([j \in 1..(Len(captures) - 1) |->
                              IF j < k THEN captures[j] ELSE captures[j + 1]])

\* the loop of build_segments_from_captures from capture k on, with the
\* gap and the size cap as parameters; st holds current_segment,
\* current_app, last_ts and segments
RECURSIVE segment_captures(_, _, _, _, _)
segment_captures(captures, k, st, gap_seconds, max_actions) ==
    IF k > Len(captures)
    THEN (IF st.current_segment # <<>>
          THEN Append(st.segments, st.current_segment) ELSE st.segments)
    ELSE LET cap == captures[k]
             ts == cap.timestamp
             should_split ==
                 /\ st.current_segment # <<>>
                 /\ \/ /\ ts # None
                       /\ st.last_ts # None
                       /\ ts - st.last_ts >= gap_seconds
                    \/ cap.app # st.current_app
                    \/ Len(st.current_segment) >= max_actions
             segments == IF should_split
                         THEN Append(st.segments, st.current_segment)
                         ELSE st.segments
             current == IF should_split THEN <<>> ELSE st.current_segment
         IN segment_captures(captures, k + 1,
                [segments |-> segments,
                 current_segment |-> Append(current, cap),
                 current_app |-> cap.app,
                 last_ts |-> IF ts # None THEN ts ELSE st.last_ts],
                gap_seconds, max_actions)

\* a SessionBuilder is made; the size cap is the one the model can reach
NewSessionBuilder ==
    /\ segmenter = NoSegmenter
    /\ segmenter' = [NoSegmenter EXCEPT
                        !.sb = SessionBuilder(SESSION_GAP, MaxSessionRecords)]
    /\ UNCHANGED <<learnVars, retry, daemon, json_file, merge_log, storeVars, loopVars, watchVars>>

\* add_record(rec)
AddRecord ==
    \E app \in {APP_FINDER, APP_MAIL}, timestamp \in SegmenterTimestamps :
        LET rec == CaptureRecord(Len(segmenter.input) + 1, app, timestamp)
            r == SessionBuilder_add_record(segmenter.sb, rec)
        IN /\ segmenter.sb.max_records > 0
           /\ Len(segmenter.input) < MaxRecords
           /\ segmenter' = [segmenter EXCEPT
                 !.sb = r.sb,
                 !.input = Append(@, rec),
                 !.returned = IF r.session # <<>> THEN Append(@, r.session) ELSE @,
                 !.ret = r.session,
                 !.flushes = 0]
           /\ UNCHANGED <<learnVars, retry, daemon, json_file, merge_log, storeVars, loopVars,
                          watchVars>>

\* flush()
Flush ==
    LET r == SessionBuilder_flush(segmenter.sb) IN
    /\ segmenter.sb.max_records > 0
    /\ segmenter.flushes < 2
    /\ segmenter' = [segmenter EXCEPT
          !.sb = r.sb,
          !.returned = IF r.session # <<>> THEN Append(@, r.session) ELSE @,
          !.ret = r.session,
          !.flushes = @ + 1]
    /\ UNCHANGED <<learnVars, retry, daemon, json_file, merge_log, storeVars, loopVars, watchVars>>

\* build_segments_from_captures on the records given so far, with the size
\* cap the model can reach in place of SEGMENT_MAX_ACTIONS
BuildSegments ==
    LET captures == sort_captures(segmenter.input) IN
    /\ segmenter.input # <<>>
    /\ segmenter' = [segmenter EXCEPT
          !.captures = captures,
          !.segments = segment_captures(captures, 1,
                           [segments |-> <<>>, current_segment |-> <<>>,
                            current_app |-> <<>>, last_ts |-> None],
                           SEGMENT_GAP_SECONDS, MaxSessionRecords)]
    /\ UNCHANGED <<learnVars, retry, daemon, json_file, merge_log, storeVars, loopVars, watchVars>>

SegmenterNext == NewSessionBuilder \/ AddRecord \/ Flush \/ BuildSegments

SegmenterSpec == WatchInit /\ [][SegmenterNext]_vars

(***************************************************************************)
(* Specification of the transport's retries: one _generate_json call of a  *)
(* provider; attempts lists what each call of the API did                  *)
(***************************************************************************)
Providers == {"gemini", "openai"}

\* what one call of the API does: an answer that parses, an answer
\* json.loads rejects, a 429 / 503 error, any other error
AttemptOutcomes == {"ok", "parse_error", "rate_limit", "error"}

\* _generate_json is called
BeginCall ==
    \E provider \in Providers :
        /\ retry.pc # "calling"
        /\ retry' = [provider |-> provider, pc |-> "calling", attempts |-> <<>>,
                     exc |-> "none"]
        /\ UNCHANGED <<learnVars, daemon, json_file, merge_log, segmenter, storeVars,
                       loopVars, watchVars>>

\* one iteration of the loop of _gemini_call_with_retry, attempt being the
\* loop variable; after the last iteration the RuntimeError is raised
GeminiAttempt ==
    \E outcome \in AttemptOutcomes :
        LET attempt == Len(retry.attempts)
            last == attempt >= MAX_RETRIES - 1
            done(to, exc) == [retry EXCEPT !.attempts = Append(@, outcome),
                                           !.pc = to, !.exc = exc]
        IN /\ retry.provider = "gemini"
           /\ retry.pc = "calling"
           /\ attempt < MAX_RETRIES
           /\ retry' =
                CASE outcome = "ok" -> done("returned", "none")
                  [] outcome = "parse_error" ->
                        IF ~last THEN done("calling", "none")
                        ELSE done("raised", "JSONDecodeError")
                  [] outcome = "rate_limit" ->
                        IF ~last THEN done("calling", "none")
                        ELSE done("raised", "RuntimeError")
                  [] outcome = "error" -> done("raised", "Exception")
           /\ UNCHANGED <<learnVars, daemon, json_file, merge_log, segmenter, storeVars,
                          loopVars, watchVars>>

\* _openai_generate_json: client.responses.create, then json.loads
OpenAIAttempt ==
    \E outcome \in AttemptOutcomes :
        /\ retry.provider = "openai"
        /\ retry.pc = "calling"
        /\ retry' = [retry EXCEPT
              !.attempts = Append(@, outcome),
              !.pc = IF outcome = "ok" THEN "returned" ELSE "raised",
              !.exc = CASE outcome = "ok" -> "none"
                        [] outcome = "parse_error" -> "JSONDecodeError"
                        [] OTHER -> "Exception"]
        /\ UNCHANGED <<learnVars, daemon, json_file, merge_log, segmenter, storeVars,
                       loopVars, watchVars>>

RetryNext == BeginCall \/ GeminiAttempt \/ OpenAIAttempt

RetrySpec == WatchInit /\ [][RetryNext]_vars

\* the thread that made the call goes on executing it
RetryFairSpec == RetrySpec /\ WF_vars(GeminiAttempt \/ OpenAIAttempt)

(***************************************************************************)
(* RecoveryLearner (agent/recovery_learner.py).  A pattern keeps its       *)
(* success_rate as the fraction success_count / sample_count it was        *)
(* computed from: for these small counts the float quotient compares with  *)
(* 0.6 and with another quotient exactly as the fractions do.              *)
(***************************************************************************)
MIN_SAMPLES_FOR_SUGGESTION == 3

\* 0.6 in tenths
MIN_SUCCESS_RATE_FOR_SUGGESTION == 6

\* the recoveries recorded: error_code, app_name, failed_action,
\* recovery_action
RecoveryInputs ==
    { <<"HINT_NOT_FOUND", "Safari", "click", "click_xy">>,
      <<"HINT_NOT_FOUND", "Safari", "click", "retry">>,
      <<"HINT_NOT_FOUND", "", "click", "click_xy">>,
      <<"HINT_NOT_FOUND", "", "", "wait">> }

\* the lookups made: error_code, app_name, failed_action
RecoveryQueries ==
    { <<"HINT_NOT_FOUND", "Safari", "click">>,
      <<"HINT_NOT_FOUND", "Mail", "click">>,
      <<"TIMEOUT", "Safari", "click">> }

\* success_count / sample_count
success_rate(success_count, sample_count) ==
    [num |-> success_count, den |-> sample_count]

\* a >= b on success rates
rate_ge(a, b) == a.num * b.den >= b.num * a.den

\* success_rate >= MIN_SUCCESS_RATE_FOR_SUGGESTION
rate_suggestable(rate) ==
    rate.num * RateDen >= MIN_SUCCESS_RATE_FOR_SUGGESTION * rate.den

\* RecoveryLearner._find_pattern: index of the first pattern equal on the
\* four keys, or None
find_pattern(patterns, error_code, app_name, failed_action, recovery_action) ==
    LET hits == { i \in DOMAIN patterns :
                    /\ patterns[i].error_code = error_code
                    /\ patterns[i].app_name = app_name
                    /\ patterns[i].failed_action = failed_action
                    /\ patterns[i].recovery_action = recovery_action }
    IN IF hits = {} THEN None ELSE CHOOSE i \in hits : \A j \in hits : i <= j

\* RecoveryLearner.record_recovery: the pattern list afterwards
record_recovery(patterns, error_code, app_name, failed_action, recovery_action, success) ==
    LET existing == find_pattern(patterns, error_code, app_name, failed_action,
                                 recovery_action)
    IN IF existing # None
       THEN LET old == patterns[existing]
                sample_count == old.sample_count + 1
                success_count == old.success_count + (IF success THEN 1 ELSE 0)
            IN [patterns EXCEPT ![existing] =
                   [old EXCEPT !.sample_count = sample_count,
                               !.success_count = success_count,
                               !.success_rate =
                                   success_rate(success_count, sample_count)]]
       ELSE Append(patterns,
                   [error_code |-> error_code, app_name |-> app_name,
                    failed_action |-> failed_action,
                    recovery_action |-> recovery_action,
                    sample_count |-> 1,
                    success_count |-> IF success THEN 1 ELSE 0,
                    success_rate |-> IF success THEN success_rate(1, 1)
                                     ELSE success_rate(0, 1)])

\* the candidates of one search key, in list order
recovery_candidates(patterns, key) ==
    LET Candidate(p) ==
            /\ p.error_code = key[1]
            /\ p.app_name = key[2]
            /\ p.failed_action = key[3]
            /\ p.sample_count >= MIN_SAMPLES_FOR_SUGGESTION
            /\ rate_suggestable(p.success_rate)
    IN SelectSeq(patterns, Candidate)

\* max(candidates, key=success_rate): the first of the largest ones
best_candidate(candidates) ==
    candidates[CHOOSE i \in DOMAIN candidates :
                 /\ \A j \in DOMAIN candidates :
                        rate_ge(candidates[i].success_rate,
                                candidates[j].success_rate)
                 /\ \A j \in 1..(i - 1) :
                        ~rate_ge(candidates[j].success_rate,
                                 candidates[i].success_rate)]

search_keys(error_code, app_name, failed_action) ==
    << <<error_code, app_name, failed_action>>,
       <<error_code, "", failed_action>>,
       <<error_code, "", "">> >>

get_learned_recoveryMutantBestOfAll(patterns, error_code, app_name, failed_action) ==
    LET keys == search_keys(error_code, app_name, failed_action)
        all == recovery_candidates(patterns, keys[1])
               \o (IF keys[2] # keys[1]
                   THEN recovery_candidates(patterns, keys[2]) ELSE <<>>)
               \o recovery_candidates(patterns, keys[3])
    IN IF all = <<>> THEN <<>> ELSE <<best_candidate(all)>>

\* RecoveryLearner.get_learned_recovery: the pattern in a sequence, or the
\* empty sequence for None
get_learned_recovery(patterns, error_code, app_name, failed_action) ==
    LET keys == search_keys(error_code, app_name, failed_action)
        found == { k \in DOMAIN keys : recovery_candidates(patterns, keys[k]) # <<>> }
    IN IF found = {} THEN <<>>
       ELSE <<best_candidate(
                  recovery_candidates(patterns,
                      keys[CHOOSE k \in found : \A l \in found : k <= l]))>>

RecordedSamples(patterns) ==
    LET RECURSIVE Sum(_)
        Sum(n) == IF n = 0 THEN 0 ELSE patterns[n].sample_count + Sum(n - 1)
    IN Sum(Len(patterns))

RecordRecovery ==
    /\ RecordedSamples(recovery.patterns) < MaxRecoveries
    /\ \E input \in RecoveryInputs, success \in BOOLEAN :
          recovery' = [patterns |-> record_recovery(recovery.patterns, input[1],
                                                    input[2], input[3], input[4],
                                                    success),
                       call |-> <<"record_recovery">>,
                       returned |-> <<>>]
    /\ UNCHANGED <<daemon, json_file, merge_log, segmenter, retry, regression,
                   storeVars, loopVars, watchVars>>

GetLearnedRecovery ==
    /\ \E query \in RecoveryQueries :
          recovery' = [recovery EXCEPT
                          !.call = <<"get_learned_recovery">> \o query,
                          !.returned = get_learned_recovery(recovery.patterns,
                                           query[1], query[2], query[3])]
    /\ UNCHANGED <<daemon, json_file, merge_log, segmenter, retry, regression,
                   storeVars, loopVars, watchVars>>

RecoveryNext == RecordRecovery \/ GetLearnedRecovery

RecoverySpec == WatchInit /\ [][RecoveryNext]_vars


(***************************************************************************)
(* MetaAnalyzer.detect_regression (agent/meta_analyzer.py).  The feedbacks *)
(* of the workflow are [timestamp, success] with distinct timestamps.  A   *)
(* rate is the binary64 quotient k / 10: it is kept as the number of       *)
(* tenths k and the distance of the double from k/10, in units of          *)
(* 1 / (10 * 2^56).  The difference of two such doubles is a double, so    *)
(* the subtraction does not round.                                         *)
(***************************************************************************)
REGRESSION_WINDOW == 10

\* the double nearest to k/10 minus k/10, in units of 1 / (10 * 2^56)
TenthError ==
    [k \in 0..REGRESSION_WINDOW |->
        CASE k = 1 -> 4  [] k = 2 -> 8   [] k = 3 -> -8  [] k = 4 -> 16
          [] k = 6 -> -16 [] k = 7 -> -32 [] k = 8 -> 32  [] k = 9 -> 16
          [] OTHER -> 0]

\* count / len(previous_10) in floating point
window_rate(count) == [tenths |-> count, error |-> TenthError[count]]

\* prev_rate - recent_rate
rate_drop(prev_rate, recent_rate) ==
    [tenths |-> prev_rate.tenths - recent_rate.tenths,
     error |-> prev_rate.error - recent_rate.error]

\* drop >= 0.2, the literal being the double nearest to 2/10
drop_reached(drop) ==
    \/ drop.tenths > 2
    \/ drop.tenths = 2 /\ drop.error >= TenthError[2]

\* feedbacks.sort(key=timestamp): ascending
RECURSIVE by_timestamp(_)
by_timestamp(feedbacks) ==
    IF feedbacks = {} THEN <<>>
    ELSE LET f == CHOOSE g \in feedbacks :
                      \A h \in feedbacks : g.timestamp <= h.timestamp
         IN <<f>> \o by_timestamp(feedbacks \ {f})

successes(feedbacks, from, to) ==
    Cardinality({ i \in from..to : feedbacks[i].success })

\* MetaAnalyzer.detect_regression over the feedbacks of the workflow
detect_regression(all) ==
    LET feedbacks == by_timestamp(all)
        n == Len(feedbacks)
    IN IF n < 2 * REGRESSION_WINDOW THEN FALSE
       ELSE LET prev_rate ==
                    window_rate(successes(feedbacks, n - 2 * REGRESSION_WINDOW + 1,
                                          n - REGRESSION_WINDOW))
                recent_rate ==
                    window_rate(successes(feedbacks, n - REGRESSION_WINDOW + 1, n))
            IN drop_reached(rate_drop(prev_rate, recent_rate))

\* the outcome of the newest feedback, as a set (empty without feedback)
LastOutcome(feedbacks) ==
    { f.success : f \in { g \in feedbacks :
                              g.timestamp = Cardinality(feedbacks) } }

\* the number of runs of equal outcomes in timestamp order
OutcomeRuns(all) ==
    LET feedbacks == by_timestamp(all) IN
    Cardinality({ i \in DOMAIN feedbacks :
                    i = 1 \/ feedbacks[i].success # feedbacks[i - 1].success })

\* a run of executions of the workflow with one outcome, each recorded
RecordOutcomes ==
    /\ OutcomeRuns(regression.feedbacks) < MaxOutcomeRuns
    /\ \E n \in 1..(MaxHistory - Cardinality(regression.feedbacks)),
          success \in BOOLEAN \ LastOutcome(regression.feedbacks) :
          regression' =
              [feedbacks |-> regression.feedbacks \cup
                   { [timestamp |-> Cardinality(regression.feedbacks) + i,
                      success |-> success] : i \in 1..n },
               detected |-> <<>>]
    /\ UNCHANGED <<daemon, json_file, merge_log, segmenter, retry, recovery,
                   storeVars, loopVars, watchVars>>

DetectRegression ==
    /\ regression' = [regression EXCEPT
                         !.detected = <<detect_regression(regression.feedbacks)>>]
    /\ UNCHANGED <<daemon, json_file, merge_log, segmenter, retry, recovery,
                   storeVars, loopVars, watchVars>>

RegressionNext == RecordOutcomes \/ DetectRegression

RegressionSpec == WatchInit /\ [][RegressionNext]_vars


(***************************************************************************)
(* Specification of the replay of a pruned workflow: the stored workflow   *)
(* of the status lifecycle has five feedbacks, four of them failures of    *)
(* its first step; refine passes run, and play_workflow replays it         *)
(***************************************************************************)
PrunedFeedback ==
    LET steps == LifecycleStore[1].steps IN
    (ExecutionFeedback(1, FALSE, 1, 0, <<0>>, <<>>, "workflow") :> 4)
    @@ (ExecutionFeedback(1, TRUE, Len(steps), Len(steps), <<>>, <<>>,
                          "workflow") :> 1)

PrunedReplayInit ==
    /\ store = LifecycleStore
    /\ usedIds = DOMAIN LifecycleStore
    /\ feedback = PrunedFeedback
    /\ refines = 0
    /\ LoopIdle
    /\ WatchIdle

PrunedReplayNext ==
    \/ LifecycleRefine
    \/ StartPlayWorkflow
    \/ WorkflowStep
    \/ FinishWorkflow

PrunedReplaySpec == PrunedReplayInit /\ [][PrunedReplayNext]_vars


(***************************************************************************)
(* Properties of the stores (specification Spec)                           *)
(***************************************************************************)
\* queries handed to WorkflowStore.search: no keyword, a name prefix, a full
\* name in upper case, the application name, two keywords, a foreign word
Queries ==
    { <<>>, <<CH_a>>, <<CH_a + UPPER_OFFSET, CH_b>>, APP_FINDER,
      <<CH_a, SPACE, CH_c>>, <<CH_v>> }

\* C1: for every query and every reachable store, search returns no workflow
\* whose status is deprecated
SearchNeverReturnsDeprecated ==
    \A q \in Queries :
        LET hits == search(store, q) IN
        \A k \in 1..Len(hits) : store[hits[k]].status # "deprecated"

\* a deprecated workflow is on disk and every keyword of a query occurs in it,
\* next to a workflow that the same query does return
DeprecatedWorkflowMatchesQuery ==
    \E id \in DOMAIN store :
        /\ store[id].status = "deprecated"
        /\ IsSubstring(<<CH_a>>, searchable(store[id]))
        /\ search(store, <<CH_a>>) # <<>>

\* C10: in every reachable store every workflow has its confidence in [0, 1]
ConfidenceInUnitInterval ==
    \A id \in DOMAIN store :
        store[id].confidence >= 0 /\ store[id].confidence <= Scale

\* a variant was created, and another workflow's confidence was blended with
\* a success rate or averaged in a merge
ConfidenceWasRecomputed ==
    /\ \E id \in DOMAIN store : store[id].parent_id # None
    /\ \E id \in DOMAIN store :
          /\ store[id].parent_id = None
          /\ store[id].confidence \notin
               { i.res.confidence : i \in ExtractInputs }

(***************************************************************************)
(* Property of the status lifecycle (specification LifecycleSpec)          *)
(***************************************************************************)
\* C5: once a workflow's stored status is deprecated, no refine pass and no
\* feedback recording changes it to draft, tested or active
DeprecationIsTerminal ==
    [][ \A id \in DOMAIN store :
            store[id].status = "deprecated" =>
                (id \in DOMAIN store' => store'[id].status = "deprecated") ]_vars

\* the feedbacks of a deprecated workflow meet the thresholds of the promotion
\* to active, and a refine pass leaves the store as it is
DeprecatedWithPromotableFeedback ==
    \E id \in DOMAIN store :
        LET rate == get_success_rate(feedback, id) IN
        /\ store[id].status = "deprecated"
        /\ rate[2] >= PROMOTE_TO_ACTIVE_MIN_COUNT
        /\ rate[1] * RateDen >= PROMOTE_TO_ACTIVE_MIN_RATE * rate[2]
        /\ refine_all(store, feedback, FreshIds(IdSet \ usedIds)).disk = store

(***************************************************************************)
(* Properties of an execution (specification LoopSpec)                     *)
(***************************************************************************)
InLoop == pc \in {"workflow", "autonomous"}

\* the application the step numbered k acts on
StepApp(k) ==
    IF run_wf = NoWorkflow THEN current_app.name ELSE run_wf.steps[k].app_name

Range(seq) == { seq[k] : k \in 1..Len(seq) }

\* C2: a dry-run execution writes no ExecutionFeedback, in the replay path and
\* in free exploration, its early goal-achieved exit included
DryRunNeverRecorded ==
    ctx.dry_run => (recorded = <<>> /\ feedback = << >>)

\* a dry-run free exploration has ended and its feedback is on disk
DryRunExplorationRecorded ==
    /\ pc = "done"
    /\ ctx.dry_run
    /\ run_wf = NoWorkflow
    /\ recorded # <<>>
    /\ feedback # << >>

\* C3: in dry-run, play_action_step makes no activate_app, no click and no
\* key event
DryRunMakesNoUiCall ==
    \A u \in ui_log :
        u.dry_run => u.call \notin {"activate_app", "click_at", "type_key"}

\* a dry-run step of an application with a bundle id was played
DryRunActivatedApp ==
    /\ ctx.dry_run
    /\ played # {}
    /\ [call |-> "activate_app", dry_run |-> TRUE] \in ui_log

\* C4: a step the executor failed is recorded failed whatever the verifier
\* says, and without a verified verdict the executor's flag is the result
VerifierNeverUpgrades ==
    \A k \in 1..Len(step_results) :
        LET r == step_results[k] IN
        r.details # <<>> =>
            /\ ~r.details[1].success => r.result = "failed"
            /\ ~r.verified => (r.result = "success") = r.details[1].success

\* one run holds a step the executor failed, a step the verifier turned down
\* and a step it confirmed
VerifierAndExecutorDisagreed ==
    /\ \E k \in 1..Len(step_results) :
          /\ step_results[k].details # <<>>
          /\ ~step_results[k].details[1].success
    /\ \E k \in 1..Len(step_results) :
          /\ step_results[k].verified
          /\ step_results[k].result = "failed"
    /\ \E k \in 1..Len(step_results) :
          /\ step_results[k].verified
          /\ step_results[k].result = "success"

\* C6: a step on a dangerous application, with confirm_dangerous and without
\* dry-run, is played only after the answer "y"; a declined one is recorded
\* skipped_dangerous, is not handed to play_action_step, and the loop goes on
\* to the next step
DeclinedStepNotExecuted ==
    /\ [](\A k \in DOMAIN prompts :
            prompts[k] # <<CH_y>> =>
                /\ k <= Len(step_results)
                /\ step_results[k].result = "skipped_dangerous"
                /\ k \notin played)
    /\ [](\A k \in played :
            (ctx.confirm_dangerous /\ ~ctx.dry_run /\ is_dangerous_app(StepApp(k)))
                => (k \in DOMAIN prompts /\ prompts[k] = <<CH_y>>))
    /\ [][ (\E k \in DOMAIN prompts' \ DOMAIN prompts : prompts'[k] # <<CH_y>>) =>
               /\ pc' = pc
               /\ InLoop
               /\ step_num' = step_num + 1
               /\ Len(step_results') = Len(step_results) + 1
               /\ UNCHANGED <<procVars, played, ui_log, consecutive_failures>> ]_vars

\* a prompt was declined and a later step was played
DeclinedThenContinued ==
    \E k \in DOMAIN prompts :
        /\ prompts[k] # <<CH_y>>
        /\ step_results[k].result = "skipped_dangerous"
        /\ \E j \in played : j > k

\* C7: the index of a step recorded skipped_dangerous is not in
\* failed_step_indices of the feedback written for the execution
SkippedStepNotInFailedIndices ==
    \A f \in Range(recorded) : \A k \in 1..Len(step_results) :
        step_results[k].result = "skipped_dangerous" =>
            step_results[k].step - 1 \notin Range(f.failed_step_indices)

\* the feedback of a run with a skipped step and no failed step names an index
SkippedStepCountedAsFailure ==
    /\ recorded # <<>>
    /\ \E k \in 1..Len(step_results) : step_results[k].result = "skipped_dangerous"
    /\ \A k \in 1..Len(step_results) : step_results[k].result # "failed"
    /\ recorded[1].failed_step_indices # <<>>

\* C8: an iteration that starts with consecutive_failures at the cap selects
\* and plays nothing, and no run holds more than max_consecutive_failures
\* failed results in a row
CapBoundsFailedRuns ==
    /\ [](pc # "idle" /\ ctx # NoContext =>
            \A i \in 1..Len(step_results) :
                \E j \in i..(i + ctx.max_consecutive_failures) :
                    j > Len(step_results) \/ step_results[j].result # "failed")
    /\ [][ (InLoop /\ consecutive_failures >= ctx.max_consecutive_failures) =>
               UNCHANGED <<procVars, step_results, played, ui_log, prompts>> ]_vars

\* a replay stopped at the cap with steps of the workflow left
AbortedAtCap ==
    /\ pc = "done"
    /\ run_wf # NoWorkflow
    /\ consecutive_failures = ctx.max_consecutive_failures
    /\ Len(step_results) < Len(run_wf.steps)
    /\ step_results[Len(step_results)].result = "failed"

\* C9: every feedback the loops write has 0 <= steps_succeeded <=
\* steps_executed and its failed_step_indices within 0 .. steps_executed - 1
FeedbackWellFormed ==
    \A f \in DOMAIN feedback :
        /\ 0 <= f.steps_succeeded
        /\ f.steps_succeeded <= f.steps_executed
        /\ \A i \in Range(f.failed_step_indices) :
              0 <= i /\ i <= f.steps_executed - 1

\* the feedback of an exploration with a wait, a success, a skip and a failure
\* in its last step
MixedOutcomeFeedback ==
    /\ pc = "done"
    /\ \E f \in DOMAIN feedback :
          /\ f.execution_mode = "autonomous"
          /\ f.steps_succeeded > 0
          /\ f.steps_executed - 1 \in Range(f.failed_step_indices)
    /\ \E k \in 1..Len(step_results) : step_results[k].action = "wait"
    /\ \E k \in 1..Len(step_results) : step_results[k].result = "skipped_dangerous"

(* C11: in every reachable store state a workflow whose parent_id is       *)
(* present refers to a workflow that exists in the store.                  *)
ParentIdRefersToExisting ==
    \A id \in DOMAIN store :
        store[id].parent_id # None => store[id].parent_id \in DOMAIN store

\* a variant is left in the store after the workflow it was derived from
\* has been deleted
OrphanedVariant ==
    \E id \in DOMAIN store :
        /\ store[id].parent_id # None
        /\ store[id].parent_id \notin DOMAIN store

(***************************************************************************)
(* Pruning of failing steps (specification LifecycleSpec)                  *)
(***************************************************************************)
\* the indices of the steps of wf whose failure rate, as
\* get_step_failure_rates reports it for workflow id, is PRUNE_FAILURE_RATE
\* or more
HighFailureSteps(fb, id, wf) ==
    LET counts == get_step_failure_counts(fb, id)
        total == Count(get_by_workflow(fb, id))
    IN { k \in 0..(Len(wf.steps) - 1) :
            /\ k \in DOMAIN counts
            /\ counts[k] * RateDen >= PRUNE_FAILURE_RATE * total }

\* C12: when refine_all completes, no workflow that is not deprecated and has
\* at least 3 feedbacks has a step at an index whose failure rate is 0.8 or
\* more
NoHighFailureStepAfterRefine ==
    LET ps == refine_all(store, feedback, FreshIds(IdSet \ usedIds)) IN
    ps.ok =>
        \A id \in DOMAIN ps.disk :
            ( /\ ps.disk[id].status # "deprecated"
              /\ Count(get_by_workflow(feedback, id)) >= PRUNE_MIN_FEEDBACKS )
            => HighFailureSteps(feedback, id, ps.disk[id]) = {}

\* a refine pass has pruned a step of a workflow that is not deprecated, and
\* the step that moved to the pruned index has that index's failure rate
PrunedWorkflowKeepsFailingIndex ==
    \E id \in DOMAIN store :
        /\ store[id].status # "deprecated"
        /\ Len(store[id].steps) < Len(LifecycleStore[1].steps)
        /\ Count(get_by_workflow(feedback, id)) >= PRUNE_MIN_FEEDBACKS
        /\ HighFailureSteps(feedback, id, store[id]) # {}

(***************************************************************************)
(* Feedback directory (specification LineageSpec)                          *)
(***************************************************************************)
\* C13: feedback is append-only: no step (record, extraction, refine_all
\* with its variant creation and merges) removes or changes a feedback that
\* was recorded before
FeedbackAppendOnly ==
    [][ \A f \in DOMAIN feedback :
            f \in DOMAIN feedback' /\ feedback'[f] >= feedback[f] ]_vars

\* the feedbacks that made a refine pass create a variant are on disk after
\* the pass
FeedbacksKeptAcrossRefine ==
    /\ Count(feedback) >= MIN_FAILURES_FOR_VARIANT
    /\ refines > 0
    /\ \E id \in DOMAIN store : store[id].parent_id # None

MalformedCaptureNeverFatal ==
    pipeline_pc # "crashed"

\* run() has ended with the exception of a capture file that does not parse;
\* the file is still in the directory and is not marked as processed
PipelineCrashedOnMalformedCapture ==
    /\ pipeline_pc = "crashed"
    /\ \E n \in DOMAIN watch_dir : ~watch_dir[n].ok /\ n \notin processed

\* C17: within a scan cycle the captures are handed on in ascending order of
\* their timestamps, whatever their file names are
FedInTimestampOrder ==
    \A i, j \in 1..Len(fed.last) : i < j => fed.last[i] <= fed.last[j]

\* a _process_cycle has handed the later capture to the session builder
\* first, because its file name sorts first
PipelineFedLaterCaptureFirst ==
    /\ pipeline_pc = "running"
    /\ processed_log = <<1, 2>>
    /\ Len(fed.last) = 2
    /\ fed.last[1] > fed.last[2]

(***************************************************************************)
(* Properties of the FileWatcher (specification WatcherSpec)               *)
(***************************************************************************)
\* C15: after mark_processed(p) a scan does not return p, and a repeated
\* mark_processed(p) is a no-op: it leaves the in-memory processed set and
\* the persisted processed log as they were after the first call
MarkProcessedIdempotent ==
    [][ \A p \in FileNames :
            processed_log' = Append(processed_log, p) =>
                /\ p \notin Range(scan_new_files(watch_dir', processed'))
                /\ p \in processed =>
                      (processed' = processed /\ processed_log' = processed_log) ]_vars

\* a path has been marked twice: the processed log names it on two lines
MarkedTwice ==
    \E i, j \in 1..Len(processed_log) :
        i < j /\ processed_log[i] = processed_log[j]

(***************************************************************************)
(* Properties of the extractor (specification DedupSpec)                   *)
(***************************************************************************)
\* the workflows _analyze_segment returns for the segments
OfferedWorkflows(inputs) ==
    { analyze_segment(inputs[k].segment, inputs[k].res)[1] :
        k \in { j \in 1..Len(inputs) :
                  analyze_segment(inputs[j].segment, inputs[j].res) # <<>> } }

SameName(a, b) == Lower(a.name) = Lower(b.name)

OneWorkflowPerName(st) ==
    \A i, j \in DOMAIN st : SameName(st[i], st[j]) => i = j

\* C18: the store holds at most one workflow per case-insensitive name, and
\* an extraction over any segments keeps it so: for every offered name the
\* workflow stored afterwards has the highest confidence among the stored
\* one and the offered ones, and a stored workflow that no offer exceeds
\* (an offer of equal confidence included) is not replaced
ExtractKeepsHighestConfidence ==
    /\ OneWorkflowPerName(store)
    /\ \A inputs \in Directories :
         LET es == extract_all(store, inputs, FreshIds(DedupIds \ usedIds))
             offered == OfferedWorkflows(inputs)
         IN es.ok =>
            /\ OneWorkflowPerName(es.disk)
            /\ \A w \in offered :
                 \E id \in DOMAIN es.disk :
                    /\ SameName(es.disk[id], w)
                    /\ \A v \in offered :
                          SameName(v, w) => v.confidence <= es.disk[id].confidence
                    /\ \A e \in DOMAIN store :
                          SameName(store[e], w) =>
                             /\ store[e].confidence <= es.disk[id].confidence
                             /\ (\A v \in offered :
                                    SameName(v, w) =>
                                        v.confidence <= store[e].confidence)
                                => (id = e /\ es.disk[id] = store[e])

\* the workflow named in upper case has replaced the stored one of the same
\* name in lower case and lower confidence
UpperCaseNameReplacedLower ==
    /\ Cardinality(usedIds) > Cardinality(DOMAIN store)
    /\ \E id \in DOMAIN store : store[id].name = NAME_AB_UPPER

\* identifiers uuid can return in a second run: none that was used before
SecondRunIds == (MaxDedupId + 1)..(MaxDedupId + MaxSegments)

\* C19: running learn (extract_all) twice on the same unchanged directory
\* with the same oracle answers gives the same stored workflows: the second
\* run adds, replaces and deletes nothing
SecondLearnChangesNothing ==
    \A inputs \in Directories :
        LET first == extract_all(store, inputs, FreshIds(DedupIds \ usedIds))
            second == extract_all(first.disk, inputs, FreshIds(SecondRunIds))
        IN first.ok => (second.ok /\ second.disk = first.disk)

\* the store is what a learn run left over a directory of two segments of
\* the same name, the second of which replaced the first, and a second run
\* over that directory leaves it as it is
LearnedFromSameNamePair ==
    LET inputs == << [segment |-> SEG_SHORT,
                      res |-> OracleResult(TRUE, NAME_AB, {TAG_A}, 600)],
                     [segment |-> SEG_SHORT,
                      res |-> OracleResult(TRUE, NAME_AB_UPPER, {TAG_A}, 800)] >>
    IN /\ inputs \in Directories
       /\ store = extract_all(<< >>, inputs, FreshIds(DedupIds)).disk
       /\ extract_all(store, inputs, FreshIds(SecondRunIds)).disk = store

(***************************************************************************)
(* Properties of the oracle adapter (specification OracleSpec)             *)
(***************************************************************************)
\* outcomes that are a transport or a parse failure for op: analyze_session
\* returns the text as it is and parses nothing
FailureOutcomes(op) ==
    IF op = "analyze_session" THEN { "error" }
    ELSE { "error", "no_text", "not_json" }

\* the neutral result of each public method
NeutralResult(op) ==
    CASE op = "analyze_session" -> "error_dict"
      [] op = "verify_execution" -> "success_false"
      [] op = "check_goal_achieved" -> "achieved_false"
      [] OTHER -> "null"

\* C20: no public method of the oracle adapter raises into its caller, and
\* on a transport or parse failure it returns its neutral result
OracleNeverThrows ==
    \A k \in 1..Len(ai_calls) :
        /\ ai_calls[k].result.exc = "none"
        /\ ai_calls[k].outcome \in FailureOutcomes(ai_calls[k].op) =>
              ai_calls[k].result.value = NeutralResult(ai_calls[k].op)

\* a call whose transport failed and a call whose answer did not parse have
\* both returned
FailedCallsReturned ==
    /\ \E k \in 1..Len(ai_calls) : ai_calls[k].outcome = "error"
    /\ \E k \in 1..Len(ai_calls) :
          ai_calls[k].outcome = "not_json" /\ ai_calls[k].op = "verify_execution"

(***************************************************************************)
(* Properties of the daemon loops (specification DaemonFairSpec)           *)
(***************************************************************************)
\* once stop() has cleared the flag, a running loop never sleeps more than
\* one second without reading the flag
FlagReadEverySecond == \A d \in Daemons : daemon[d].late <= 1

\* once stop() has cleared the flag, the loop starts no further cycle
NoCycleAfterStop ==
    [][\A d \in Daemons :
          (~daemon[d].running /\ daemon[d].pc # "idle") =>
              daemon'[d].cycles = daemon[d].cycles]_vars

\* once stop() has cleared the flag, run() returns
StoppedLoopTerminates ==
    \A d \in Daemons :
        (~daemon[d].running /\ daemon[d].pc # "idle") ~> (daemon[d].pc = "done")

\* C21: the daemon loop shuts down promptly: once stop() has cleared the
\* running flag of a running loop, the loop reads the flag at least once per
\* second of sleeping, starts no further cycle and terminates, both in
\* ContinuousLearner.run and in LearningPipeline.run
DaemonShutsDownPromptly ==
    /\ []FlagReadEverySecond
    /\ NoCycleAfterStop
    /\ StoppedLoopTerminates

\* LearningPipeline.run has slept more than a second since stop() without
\* reading the flag
PipelineSleepsThroughStop ==
    /\ daemon["LearningPipeline"].pc = "sleep"
    /\ ~daemon["LearningPipeline"].running
    /\ daemon["LearningPipeline"].late > 1

(***************************************************************************)
(* Properties of the workflow file format (specification FileSpec)         *)
(***************************************************************************)
\* C22: unknown fields of a workflow file are preserved on round-trip: after
\* the store has read the file and written it back, the file still carries
\* every field outside the Workflow model with its value
UnknownFieldsPreserved ==
    \A k \in DOMAIN json_file.written \ WorkflowFields :
        /\ k \in DOMAIN json_file.data
        /\ json_file.data[k] = json_file.written[k]

\* the store has read and saved a file written with schema_version, and the
\* file no longer has the key
SavedFileLostUnknownField ==
    /\ "schema_version" \in DOMAIN json_file.written
    /\ "name" \in DOMAIN json_file.written
    /\ DOMAIN json_file.data = WorkflowFields
    /\ json_file.data["name"] = json_file.written["name"]

(***************************************************************************)
(* Properties of the execution result (specification LoopSpec)             *)
(***************************************************************************)
\* C23: after either execution loop the success flag of the result equals
\* (steps_succeeded > 0), on every exit path, the early exit of the free
\* exploration on goal achievement included
SuccessIffAStepSucceeded ==
    result.success <=> result.steps_succeeded > 0

\* the free exploration has returned on goal achievement with no successful
\* step
GoalAchievedWithoutSuccessfulStep ==
    /\ pc = "done"
    /\ result.goal_achieved
    /\ result.success
    /\ result.steps_executed > 0
    /\ result.steps_succeeded = 0

(***************************************************************************)
(* Status transitions of a refine pass (specification LifecycleSpec)       *)
(***************************************************************************)
\* the status the transition table gives for count feedbacks of which succ
\* succeeded (rate = succ / count)
TableStatus(old_status, count, succ) ==
    IF count >= 3 /\ succ * 10 < 2 * count THEN "deprecated"
    ELSE IF count >= 5 /\ succ * 10 >= 7 * count THEN "active"
    ELSE IF count >= 1 /\ succ > 0 /\ old_status = "draft" THEN "tested"
    ELSE old_status

\* C24: for a workflow that is not deprecated at the start of a refine pass,
\* with count feedbacks and success rate rate, the status after the pass is
\* deprecated if count >= 3 and rate < 0.2, otherwise active if count >= 5
\* and rate >= 0.7, otherwise tested if count >= 1, rate > 0 and the status
\* was draft, otherwise unchanged; with count = 0 the status does not change
StatusFollowsTable ==
    LET ps == refine_all(store, feedback, FreshIds(IdSet \ usedIds)) IN
    ps.ok =>
        \A id \in DOMAIN store \cap DOMAIN ps.disk :
            store[id].status # "deprecated" =>
                LET fbs == get_by_workflow(feedback, id) IN
                /\ ps.disk[id].status =
                       TableStatus(store[id].status, Count(fbs), SuccessCount(fbs))
                /\ Count(fbs) = 0 => ps.disk[id].status = store[id].status

\* a refine pass has made a workflow active, and with the feedbacks recorded
\* since then its rate is positive but below the one that activates
ActiveWorkflowBelowActivationRate ==
    \E id \in DOMAIN store :
        LET fbs == get_by_workflow(feedback, id) IN
        /\ store[id].status = "active"
        /\ store[id].execution_count >= 5
        /\ Count(fbs) > store[id].execution_count
        /\ SuccessCount(fbs) * 10 < 7 * Count(fbs)
        /\ SuccessCount(fbs) * 10 >= 2 * Count(fbs)

(***************************************************************************)
(* Range of a refine pass (specification LineageSpec)                      *)
(***************************************************************************)
\* the <<base, other>> pairs _merge_similar merges in a pass on st
MergedPairs(st, fb, fresh) ==
    LET workflows == list_all(st)
        ps == refine_from([mem |-> st, disk |-> st, fresh |-> fresh, ok |-> TRUE],
                          fb, workflows, 1)
        ms == merge_from([mem |-> ps.mem, disk |-> ps.disk, merged |-> {},
                          absorbed |-> <<>>, count |-> 0], workflows, 1)
    IN { <<ms.absorbed[k].base, ms.absorbed[k].other>> : k \in 1..Len(ms.absorbed) }

\* C25: a refine pass ranges over non-deprecated workflows only: refine_all
\* neither modifies (confidence, tags, execution_count, steps) nor deletes a
\* workflow that was deprecated when the pass started, and deletes no
\* non-deprecated workflow by absorbing it into a deprecated one
RefineLeavesDeprecatedAlone ==
    LET fresh == FreshIds(LineageIds \ usedIds)
        ps == refine_all(store, feedback, fresh)
    IN ps.ok =>
        /\ \A id \in DOMAIN store :
              store[id].status = "deprecated" =>
                  /\ id \in DOMAIN ps.disk
                  /\ ps.disk[id].confidence = store[id].confidence
                  /\ ps.disk[id].tags = store[id].tags
                  /\ ps.disk[id].execution_count = store[id].execution_count
                  /\ ps.disk[id].steps = store[id].steps
        /\ \A pair \in MergedPairs(store, feedback, fresh) :
              store[pair[1]].status = "deprecated" =>
                  store[pair[2]].status = "deprecated"

\* the store holds a deprecated workflow that the next refine pass deletes
\* by merging it into a similar workflow
DeprecatedWorkflowMergedAway ==
    \E id \in DOMAIN store :
        /\ store[id].status = "deprecated"
        /\ refines > 0
        /\ \E pair \in MergedPairs(store, feedback, FreshIds(LineageIds \ usedIds)) :
              pair[2] = id

(***************************************************************************)
(* Variant generation (specification VariantSpec)                          *)
(***************************************************************************)
\* the variants of a workflow: the stored workflows whose parent_id is its id
VariantsOf(id) == { w \in DOMAIN store : store[w].parent_id = id }

FailedCount(id) ==
    Count(Restrict(get_by_workflow(feedback, id), LAMBDA f : ~f.success))

\* C26: variant generation is capped: after any sequence of refine passes
\* and feedback recordings no workflow has more than 3 variants, and a
\* variant exists only for a workflow with at least 3 failing feedbacks
VariantsCapped ==
    /\ \A id \in usedIds : Cardinality(VariantsOf(id)) <= 3
    /\ \A w \in DOMAIN store :
          store[w].parent_id # None => FailedCount(store[w].parent_id) >= 3

\* a workflow has three variants and a refine pass has run since the third
\* was created
ThreeVariantsAndOneMorePass ==
    \E id \in DOMAIN store :
        /\ Cardinality(VariantsOf(id)) = 3
        /\ store[id].status # "deprecated"
        /\ refines = 4

(***************************************************************************)
(* Merging (specification MergeSpec)                                       *)
(***************************************************************************)
\* the position of workflow id in the order the pass visits the workflows
Visit(id) == CHOOSE k \in 1..Len(merge_log.order) : merge_log.order[k] = id

\* what every merge of the last pass did, whichever workflow wins a tie
MergeAbsorbs(e, k) ==
    /\ e.base \in DOMAIN e.disk
    /\ e.other \notin DOMAIN e.disk
    /\ Len(e.b.steps) >= Len(e.o.steps)
    /\ e.disk[e.base].confidence = (e.b.confidence + e.o.confidence) \div 2
    /\ e.disk[e.base].tags = e.b.tags \cup e.o.tags
    /\ e.disk[e.base].execution_count = e.b.execution_count + e.o.execution_count
    /\ \A j \in (k + 1)..Len(merge_log.merges) :
          e.other \notin {merge_log.merges[j].base, merge_log.merges[j].other}

\* C27 as stated: merging two similar non-variant workflows leaves exactly
\* one of them in the store: the one with more steps, on a tie the one the
\* pass visited first, survives with the mean confidence, the union of the
\* tags and the sum of the execution counts; the other is deleted and is
\* neither base nor candidate again in the same pass
MergeKeepsFirstVisitedOnTie ==
    \A k \in 1..Len(merge_log.merges) :
        LET e == merge_log.merges[k] IN
        /\ MergeAbsorbs(e, k)
        /\ Len(e.b.steps) = Len(e.o.steps) => Visit(e.base) < Visit(e.other)

\* C27 amended: as above, but on a tie the survivor is the workflow the
\* pass is visiting when the two are merged, which may be the later one of
\* the two in the order of the pass
MergeKeepsVisitingOnTie ==
    \A k \in 1..Len(merge_log.merges) :
        LET e == merge_log.merges[k] IN
        /\ MergeAbsorbs(e, k)
        /\ Len(e.b.steps) = Len(e.o.steps) => e.base = e.wf
        /\ Len(e.b.steps) > Len(e.o.steps) /\ e.base # e.wf => e.other = e.wf

\* a pass has merged three workflows into one in two merges, the second on a
\* tie of the step counts
TwoMergesInOnePass ==
    /\ Len(merge_log.merges) = 2
    /\ Cardinality(DOMAIN store) = 1
    /\ Len(merge_log.merges[2].b.steps) = Len(merge_log.merges[2].o.steps)

(***************************************************************************)
(* Properties of the segmenters (specification SegmenterSpec)              *)
(***************************************************************************)
RECURSIVE Concat(_)
Concat(seqs) == IF seqs = <<>> THEN <<>> ELSE Head(seqs) \o Concat(Tail(seqs))

\* a segment of one application, of 1 to max records, in which a record's
\* timestamp exceeds the one of the record before it by less than gap
Bounded(segment, gap, max) ==
    /\ Len(segment) >= 1
    /\ Len(segment) <= max
    /\ \A i, j \in 1..Len(segment) : segment[i].app = segment[j].app
    /\ \A i \in 1..(Len(segment) - 1) :
          (segment[i].timestamp # None /\ segment[i + 1].timestamp # None) =>
              segment[i + 1].timestamp - segment[i].timestamp < gap

NothingLostOrDuplicated ==
    /\ Concat(segmenter.returned) \o segmenter.sb.buffer = segmenter.input
    /\ segmenter.flushes >= 1 =>
          /\ segmenter.sb.buffer = <<>>
          /\ Concat(segmenter.returned) = segmenter.input
    /\ segmenter.flushes = 2 => segmenter.ret = <<>>
    /\ Concat(segmenter.segments) = segmenter.captures

\* records were given, several sessions were returned, and flush() was
\* called twice
FlushedTwiceAfterSessions ==
    /\ segmenter.flushes = 2
    /\ Len(segmenter.returned) >= 2
    /\ Len(segmenter.input) = 3

(***************************************************************************)
(* Properties of the transport's retries (specification RetryFairSpec)     *)
(***************************************************************************)
\* a call makes at most 5 attempts
AtMostFiveAttempts == Len(retry.attempts) <= 5

\* a call whose first answer did not parse has not ended with that attempt
ParseErrorRetried ==
    (retry.pc \in {"returned", "raised"} /\ retry.attempts[1] = "parse_error")
        => Len(retry.attempts) >= 2

\* a call ends, with a result or with an error
CallEnds == (retry.pc = "calling") ~> (retry.pc \in {"returned", "raised"})

\* C30: oracle calls have a bounded retry budget: a call retried on rate
\* limit / service unavailable or JSON parse errors makes at most 5 attempts
\* and then ends, with a result or an error, never retrying forever; and a
\* JSON parse error is retried at least once, for every provider
RetryBudgetBounded ==
    /\ []AtMostFiveAttempts
    /\ []ParseErrorRetried
    /\ CallEnds

\* the openai provider has raised the parse error of its only attempt
OpenAIParseErrorNotRetried ==
    /\ retry.provider = "openai"
    /\ retry.pc = "raised"
    /\ retry.attempts = <<"parse_error">>


(***************************************************************************)
(* Free exploration and the goal check (specification LoopSpec)            *)
(***************************************************************************)
\* the current run is a free exploration (no workflow was chosen)
FreeExploration == ctx # NoContext /\ run_wf = NoWorkflow /\ pc # "idle"

\* C31: free exploration reports goal_achieved only when a goal check of
\* the run answered achieved with a confidence of at least 0.7; goal checks
\* are made only at steps whose number is a multiple of 5; and a run whose
\* loop the action "done" ended does not report goal_achieved
GoalAchievedOnlyByGoalCheck ==
    FreeExploration =>
        /\ (pc = "done" /\ result.goal_achieved) =>
               \E k \in DOMAIN goal_log.checks :
                   /\ goal_log.checks[k].check.achieved
                   /\ goal_log.checks[k].check.confidence * 10 >= 7 * Scale
        /\ \A k \in DOMAIN goal_log.checks : goal_log.checks[k].step % 5 = 0
        /\ (pc = "done" /\ goal_log.action = "done") => ~result.goal_achieved

\* C31 witness: one exploration met the goal at its fifth step, and another
\* was ended by "done" after a goal check that did not reach the goal
GoalReachedAtFifthStep ==
    /\ FreeExploration /\ pc = "done" /\ result.goal_achieved
    /\ Len(goal_log.checks) = 1 /\ goal_log.checks[1].step = 5

DoneEndsExplorationAfterCheck ==
    /\ FreeExploration /\ pc = "done" /\ goal_log.action = "done"
    /\ goal_log.checks # <<>> /\ goal_log.checks[1].check.achieved


(***************************************************************************)
(* Learned recoveries (specification RecoverySpec)                         *)
(***************************************************************************)
\* the patterns that may be suggested for error_code, app_name,
\* failed_action: at least 3 samples and a success rate of at least 0.6
Suggestable(error_code, app_name, failed_action) ==
    { i \in DOMAIN recovery.patterns :
        LET p == recovery.patterns[i] IN
        /\ p.error_code = error_code
        /\ p.app_name = app_name
        /\ p.failed_action = failed_action
        /\ p.sample_count >= 3
        /\ p.success_count * 10 >= 6 * p.sample_count }

\* the three levels of the lookup that was made
LookupLevel(k) ==
    LET call == recovery.call IN
    IF k = 1 THEN Suggestable(call[2], call[3], call[4])
    ELSE IF k = 2 THEN Suggestable(call[2], "", call[4])
    ELSE Suggestable(call[2], "", "")

Looked == recovery.call # <<>> /\ recovery.call[1] = "get_learned_recovery"

\* C32: get_learned_recovery returns null when no level holds a pattern
\* with sample_count >= 3 and success_rate >= 0.6; otherwise it returns a
\* pattern of the first level (exact key, then without the application,
\* then the error code alone) that holds one, and no pattern of that level
\* has a higher success rate, whatever the later levels hold
LearnedRecoveryFromFirstLevel ==
    Looked =>
        LET levels == { k \in 1..3 : LookupLevel(k) # {} } IN
        IF levels = {} THEN recovery.returned = <<>>
        ELSE LET first == CHOOSE k \in levels : \A l \in levels : k <= l IN
             /\ recovery.returned # <<>>
             /\ recovery.returned[1].sample_count >= 3
             /\ recovery.returned[1].success_count * 10
                    >= 6 * recovery.returned[1].sample_count
             /\ \E i \in LookupLevel(first) :
                    recovery.returned[1] = recovery.patterns[i]
             /\ \A i \in LookupLevel(first) :
                    recovery.patterns[i].success_count
                          * recovery.returned[1].sample_count
                       <= recovery.returned[1].success_count
                          * recovery.patterns[i].sample_count

\* C32 witness: the exact key holds a pattern with rate 2/3 and the key
\* without the application one with rate 3/3; the first is returned
EarlierLevelBeatsBetterRate ==
    /\ Looked
    /\ recovery.returned # <<>>
    /\ recovery.returned[1].app_name = "Safari"
    /\ recovery.returned[1].success_count = 2
    /\ recovery.returned[1].sample_count = 3
    /\ \E i \in LookupLevel(2) :
          recovery.patterns[i].success_count = recovery.patterns[i].sample_count


(***************************************************************************)
(* Regression detection (specification RegressionSpec)                     *)
(***************************************************************************)
\* successes among the feedbacks whose rank from the newest is in from..to
SuccessesByAge(from, to) ==
    LET n == Cardinality(regression.feedbacks) IN
    Cardinality({ f \in regression.feedbacks :
                    /\ f.success
                    /\ n - f.timestamp + 1 \in from..to })

\* C33: detect_regression is false with fewer than 20 feedbacks; with 20 or
\* more it is true exactly when the previous 10 feedbacks (by timestamp)
\* hold at least 2 more successes than the last 10
RegressionIffTwoSuccessesLost ==
    regression.detected # <<>> =>
        regression.detected[1] =
            (/\ Cardinality(regression.feedbacks) >= 20
             /\ SuccessesByAge(11, 20) >= SuccessesByAge(1, 10) + 2)

\* C33 witness: 3 successes among the previous 10, 1 among the last 10, and
\* no regression reported
TwoSuccessesLostUndetected ==
    /\ Cardinality(regression.feedbacks) = 20
    /\ SuccessesByAge(11, 20) = 3
    /\ SuccessesByAge(1, 10) = 1
    /\ regression.detected = <<FALSE>>


(***************************************************************************)
(* Direction of the status changes (specification LifecycleSpec)           *)
(***************************************************************************)
\* the status changes a workflow may go through
StatusMoves ==
    { <<"draft", "tested">>, <<"draft", "active">>, <<"tested", "active">>,
      <<"draft", "deprecated">>, <<"tested", "deprecated">>,
      <<"active", "deprecated">> }

\* C34: over refine passes and feedback recordings a workflow's status
\* changes only from draft to tested or active, from tested to active, or to
\* deprecated: never from active to tested or draft, nor from tested to draft
StatusNeverMovesBack ==
    [][ \A id \in DOMAIN store \cap DOMAIN store' :
            \/ store'[id].status = store[id].status
            \/ <<store[id].status, store'[id].status>> \in StatusMoves ]_vars

\* C34 witness: a tested workflow none of whose later replays succeeded is
\* still tested after a refine pass that counted all of its feedbacks
TestedKeptAfterFailures ==
    \E id \in DOMAIN store :
        LET fbs == get_by_workflow(feedback, id) IN
        /\ store[id].status = "tested"
        /\ store[id].execution_count = Count(fbs)
        /\ Count(fbs) >= 4
        /\ SuccessCount(fbs) = 1


(***************************************************************************)
(* Repeated pruning (specification LifecycleSpec)                          *)
(***************************************************************************)
\* C35: step pruning is idempotent: a refine pass that follows another one,
\* with no feedback recorded in between, removes no step from any workflow
SecondRefinePrunesNothing ==
    LET ps == refine_all(store, feedback, FreshIds(IdSet \ usedIds))
        qs == refine_all(ps.disk, feedback,
                         FreshIds(IdSet \ (usedIds \cup DOMAIN ps.disk)))
    IN (ps.ok /\ qs.ok) =>
           \A id \in DOMAIN ps.disk \cap DOMAIN qs.disk :
               Len(qs.disk[id].steps) >= Len(ps.disk[id].steps)

\* C35 witness: refine passes have removed every step of a workflow although
\* all the failures recorded for it are failures of its first step
EveryStepPrunedForOneFailingIndex ==
    \E id \in DOMAIN store :
        LET fbs == get_by_workflow(feedback, id) IN
        /\ store[id].status # "deprecated"
        /\ store[id].steps = <<>>
        /\ DOMAIN get_step_failure_counts(feedback, id) = {0}


(***************************************************************************)
(* Replay of a pruned workflow (specification PrunedReplaySpec)            *)
(***************************************************************************)
\* C36: every ExecutionResult the execution loops return satisfies
\* goal_achieved => success, also for the replay of a workflow whose step
\* list is empty
GoalAchievedImpliesSuccess ==
    pc = "done" => (result.goal_achieved => result.success)

\* C36 witness: the workflow all of whose steps were pruned was replayed, and
\* the result is a goal achieved by a run that did not succeed
EmptyReplayAchievesGoal ==
    /\ pc = "done"
    /\ run_wf.id = 1
    /\ run_wf.steps = <<>>
    /\ store[1].steps = <<>>
    /\ result.goal_achieved
    /\ ~result.success
    /\ result.steps_executed = 0


(***************************************************************************)
(* The workflow store during an execution (specification LoopSpec)         *)
(***************************************************************************)
\* C37: executing a workflow never changes the workflow store: no step of
\* run or play_workflow, dry-run or not, with or without parameter binding,
\* changes the steps, status, confidence or execution_count of a stored
\* workflow, or adds or removes one
ExecutionLeavesStoreAlone ==
    [][ (pc' # pc \/ step_num' # step_num) => store' = store ]_vars

\* C37 witness: a replay that was not a dry run has bound a parameter into a
\* step of the workflow it loaded, and the stored workflow has the recorded
\* text
BoundReplayFinished ==
    /\ pc = "done"
    /\ ~ctx.dry_run
    /\ run_wf.id \in DOMAIN store
    /\ \E k \in DOMAIN run_wf.steps :
          /\ run_wf.steps[k].text = "bound"
          /\ store[run_wf.id].steps[k].text = "recorded"


(***************************************************************************)
(* Stopping a daemon that has just been started (specification             *)
(* ThreadFairSpec)                                                         *)
(***************************************************************************)
\* C38: a stop() issued at any moment after the daemon thread was started,
\* also before run() has executed its first statement, makes run() return
\* eventually
StopAlwaysEndsRun ==
    \A d \in Daemons : daemon[d].stop_called ~> (daemon[d].pc = "done")

\* C38 witness: stop() was called, and the loop has its flag set and has
\* used up its cycles
LoopRunsAfterStop ==
    \E d \in Daemons :
        /\ daemon[d].stop_called
        /\ daemon[d].running
        /\ daemon[d].pc = "while"
        /\ daemon[d].cycles = MaxDaemonCycles


(***************************************************************************)
(* Sessions of the marked captures (specification PipelineFairSpec)        *)
(***************************************************************************)
\* the number of sessions handed to _process_session that hold capture n
SessionsOf(fd, n) == IF n \in DOMAIN fd.handed THEN fd.handed[n] ELSE 0

\* every capture run_once marks is in exactly one session when it returns
RunOnceHandsEveryMarkedCapture ==
    [][ (pipeline_pc # "running" /\ pipeline_pc' = "stopped"
            /\ cycles' # cycles) =>
           \A n \in load_processed(processed_log')
                        \ load_processed(processed_log) :
               SessionsOf(fed', n) = 1 ]_vars

\* no capture is ever in two sessions
NeverInTwoSessions ==
    \A n \in DOMAIN fed.handed : fed.handed[n] <= 1

\* every marked capture is eventually in a session
MarkedCaptureEventuallyHanded ==
    \A n \in FileNames :
        (n \in load_processed(processed_log)) ~> (SessionsOf(fed, n) = 1)

\* C39: every capture file the pipeline marks as processed ends up in
\* exactly one session handed to _process_session: in run_once before it
\* returns, in run() eventually, also when no further capture arrives and
\* across a restart of the pipeline
MarkedCaptureInOneSession ==
    /\ RunOnceHandsEveryMarkedCapture
    /\ []NeverInTwoSessions
    /\ MarkedCaptureEventuallyHanded

\* C39 witness: every capture written was marked as processed (so all of
\* them parsed), one of them is in no session, and the pipeline that was
\* started since then has an empty buffer
MarkedCaptureLostByRestart ==
    \E n \in load_processed(processed_log) :
        /\ added = load_processed(processed_log)
        /\ SessionsOf(fed, n) = 0
        /\ pipeline_pc = "running"
        /\ buffer = <<>>
        /\ n \in processed

=============================================================================
